---- MODULE Spec2Model ----
(***************************************************************************)
(* Association manager (BaseAssociationService) and criteria query engine  *)
(* (WaterlineQueryService) of nestjs-blueprint-crud, over a relational     *)
(* store reached through TypeORM's relation query builder.                 *)
(***************************************************************************)
EXTENDS Integers, Sequences, FiniteSets, TLC

(* ------------------------------ bounds --------------------------------- *)
NumChildren == 3
MaxFks == 2
MaxOrders == 2

(* ------------------------------ constants ------------------------------ *)
\* the value relationBuilder.of(id).set(null) stores, and an unset foreign key
NULL == 0

\* two parents (users) and NumChildren children (orders) exist
ParentIds == {1, 2}
ChildIds == 1..NumChildren
\* ids a caller may name: the existing records and one id no record has
ParentIdInputs == ParentIds \cup {3}
ChildIdInputs == 1..(NumChildren + 1)

ManyToMany == "many-to-many"
OneToMany == "one-to-many"
ManyToOne == "many-to-one"
RelationTypes == {ManyToMany, OneToMany, ManyToOne}
NoRelation == "undefined"

\* association names a caller may pass; only the first is declared on the parent
AssociationNames == {"children", "unknown"}

VARIABLES
  parents,    \* ids of the parent rows
  children,   \* ids of the child rows
  childFk,    \* one-to-many: the child's foreign key column (parent id or NULL)
  junction,   \* many-to-many: rows <<parentId, childId>> of the junction table
  toOne,      \* many-to-one: the parent's foreign key column (child id or NULL)
  relations,  \* parentRepository.metadata: relation name -> relation type
  last,       \* the last call made on the service and what it did
  prevAdd,    \* the addAssociation call that `last` repeats, when it repeats one
  table,      \* query engine under test: entity id -> number of its joined orders
  answer,     \* the last call made on the query engine and what it returned
  records,    \* CrudService: entity id -> the stored values of its properties
  crud,       \* the last call made on the CrudService and what it did
  procs       \* concurrent callers: caller -> its association call in flight

associationVars == <<parents, children, childFk, junction, toOne, relations, last, prevAdd>>
engineVars == <<table, answer>>
crudVars == <<records, crud>>
raceVars == <<procs>>
vars == <<parents, children, childFk, junction, toOne, relations, last, prevAdd,
          table, answer, records, crud, procs>>

DB == [parents |-> parents, children |-> children, childFk |-> childFk,
       junction |-> junction, toOne |-> toOne]

(* ------------------------------ helpers -------------------------------- *)
Min(S) == CHOOSE x \in S : \A y \in S : x <= y

RECURSIVE SortedSeq(_)
\* rows come back from the store in primary-key order
SortedSeq(S) == IF S = {} THEN <<>> ELSE <<Min(S)>> \o SortedSeq(S \ {Min(S)})

Range(s) == {s[i] : i \in DOMAIN s}

RECURSIVE Filter(_, _)
\* Array.prototype.filter with the membership tests the service uses
Filter(s, keep) ==
  IF s = <<>> THEN <<>>
  ELSE (IF Head(s) \in keep THEN <<Head(s)>> ELSE <<>>) \o Filter(Tail(s), keep)

RECURSIVE Dedup(_)
\* Array.from(new Set(xs)): first occurrences, in order
Dedup(s) ==
  IF s = <<>> THEN <<>>
  ELSE <<Head(s)>> \o Dedup(Filter(Tail(s), Range(s) \ {Head(s)}))

(* ------------------------- child entity (Order) ------------------------ *)
ChildColumns == {"id", "totalAmount"}

ChildRow(c) == [id |-> c, totalAmount |-> 10 * c]

(* ----------------------- where objects (criteria) ---------------------- *)
\* A where object is the sequence of its own enumerable keys, in insertion
\* order.  Each entry is a plain value, an object of modifiers, or an
\* and/or list of where objects.
Val(k, v) == [key |-> k, kind |-> "value", vals |-> {v}, mods |-> <<>>, subs |-> <<>>]
Mod(k, m, vs) ==
  [key |-> k, kind |-> "object", vals |-> {}, mods |-> <<[m |-> m, vals |-> vs]>>, subs |-> <<>>]
Lst(k, ws) == [key |-> k, kind |-> "array", vals |-> {}, mods |-> <<>>, subs |-> ws]

Clause(type, column, cmp, vals) == [type |-> type, column |-> column, cmp |-> cmp, vals |-> vals]

SupportedModifiers ==
  {"<", "<=", ">", ">=", "!=", "in", "nin", "contains", "startsWith", "endsWith"}

\* WaterlineQueryService.applyComparison: one parameterised condition, or
\* nothing at all for a modifier outside the switch
ApplyComparison(operatorClause, key, modifier, modifierValue) ==
  IF modifier \in SupportedModifiers
  THEN <<Clause(operatorClause, key, modifier, modifierValue)>>
  ELSE <<>>

RECURSIVE ApplyModifiers(_, _, _)
ApplyModifiers(operatorClause, key, mods) ==
  IF mods = <<>> THEN <<>>
  ELSE ApplyComparison(operatorClause, key, Head(mods).m, Head(mods).vals)
       \o ApplyModifiers(operatorClause, key, Tail(mods))

RECURSIVE ApplyCriteria(_, _, _)
RECURSIVE ApplyEach(_, _, _)
\* WaterlineQueryService.applyCriteria: the andWhere/orWhere calls made on
\* the one query builder, in order
\* columns: the property paths metadata.findColumnWithPropertyPath resolves
ApplyCriteria(columns, criteria, operator) ==
  IF criteria = <<>> THEN <<>>
  ELSE LET e == Head(criteria)
           here ==
             IF e.key \in {"and", "or"}
             THEN (IF e.kind = "array" THEN ApplyEach(columns, e.subs, e.key) ELSE <<>>)
             ELSE IF e.key \notin columns THEN <<>>
             ELSE IF e.kind = "object" THEN ApplyModifiers(operator, e.key, e.mods)
             ELSE <<Clause(operator, e.key, "=", e.vals)>>
       IN here \o ApplyCriteria(columns, Tail(criteria), operator)

ApplyEach(columns, subCriteria, key) ==
  IF subCriteria = <<>> THEN <<>>
  ELSE ApplyCriteria(columns, Head(subCriteria), key)
       \o ApplyEach(columns, Tail(subCriteria), key)

\* one compiled condition on one row
Holds(row, c) ==
  LET x == row[c.column]
  IN CASE c.cmp = "=" -> x \in c.vals
       [] c.cmp = "!=" -> x \notin c.vals
       [] c.cmp = "<" -> \A v \in c.vals : x < v
       [] c.cmp = "<=" -> \A v \in c.vals : x <= v
       [] c.cmp = ">" -> \A v \in c.vals : x > v
       [] c.cmp = ">=" -> \A v \in c.vals : x >= v
       [] c.cmp = "in" -> x \in c.vals
       [] c.cmp = "nin" -> x \notin c.vals
       [] OTHER -> FALSE

RECURSIVE EvalFrom(_, _, _, _)
\* The builder joins its conditions in call order as `c1 AND c2 OR c3 ...`
\* with no parentheses, so SQL groups the ANDs first: acc is the value of
\* the conjunction the scan is in.
EvalFrom(row, clauses, i, acc) ==
  IF i > Len(clauses) THEN acc
  ELSE IF i > 1 /\ clauses[i].type = "or"
       THEN acc \/ EvalFrom(row, clauses, i + 1, Holds(row, clauses[i]))
       ELSE EvalFrom(row, clauses, i + 1, acc /\ Holds(row, clauses[i]))

Matches(row, clauses) == EvalFrom(row, clauses, 1, TRUE)


(* --------------------------- criteria inputs --------------------------- *)
\* an optional number is the empty set when the key is absent
Absent == {}
Truthy(opt) == opt # {} /\ opt # {0}
ValueOf(opt) == CHOOSE n \in opt : TRUE

Criteria(hasWhere, where, limit, skip) ==
  [hasWhere |-> hasWhere, where |-> where, limit |-> limit, skip |-> skip]

NoCriteria == Criteria(FALSE, <<>>, Absent, Absent)

Drop(s, n) == IF n >= Len(s) THEN <<>> ELSE SubSeq(s, n + 1, Len(s))
Take(s, n) == IF n >= Len(s) THEN s ELSE SubSeq(s, 1, n)

\* WaterlineQueryService.findWithModifiers on the child repository: the ids
\* of the entities returned
FindWithModifiers(db, criteria) ==
  LET clauses == IF criteria.hasWhere THEN ApplyCriteria(ChildColumns, criteria.where, "and") ELSE <<>>
      rows == SortedSeq({c \in db.children : Matches(ChildRow(c), clauses)})
      skipped == IF Truthy(criteria.skip) THEN Drop(rows, ValueOf(criteria.skip)) ELSE rows
  IN IF Truthy(criteria.limit) THEN Take(skipped, ValueOf(criteria.limit)) ELSE skipped

\* mutant: the count ignores criteria.where
CountWithModifiersOfAll(db, criteria) == Cardinality(db.children)

\* WaterlineQueryService.countWithModifiers on the child repository
CountWithModifiers(db, criteria) ==
  LET clauses == IF criteria.hasWhere THEN ApplyCriteria(ChildColumns, criteria.where, "and") ELSE <<>>
  IN Cardinality({c \in db.children : Matches(ChildRow(c), clauses)})

(* ------------------------------ strings -------------------------------- *)
RECURSIVE SplitFrom(_, _, _)
\* String.prototype.split(separator) for a one-character separator
SplitFrom(s, separator, piece) ==
  IF s = "" THEN <<piece>>
  ELSE IF Head(s) = separator THEN <<piece>> \o SplitFrom(Tail(s), separator, "")
  ELSE SplitFrom(Tail(s), separator, piece \o Head(s))

Split(s, separator) == SplitFrom(s, separator, "")

RECURSIVE TrimStart(_)
TrimStart(s) == IF s # "" /\ Head(s) = " " THEN TrimStart(Tail(s)) ELSE s

RECURSIVE TrimEnd(_)
TrimEnd(s) ==
  IF s # "" /\ SubSeq(s, Len(s), Len(s)) = " " THEN TrimEnd(SubSeq(s, 1, Len(s) - 1)) ELSE s

\* String.prototype.trim, for the blanks a criteria string carries
Trim(s) == TrimEnd(TrimStart(s))

\* String.prototype.includes
Includes(s, part) ==
  \E i \in 1..(Len(s) - Len(part) + 1) : SubSeq(s, i, i + Len(part) - 1) = part

LowerCaseLetters == "abcdefghijklmnopqrstuvwxyz"
UpperCaseLetters == "ABCDEFGHIJKLMNOPQRSTUVWXYZ"

RECURSIVE ToUpperCase(_)
\* String.prototype.toUpperCase
ToUpperCase(s) ==
  IF s = "" THEN ""
  ELSE LET c == Head(s)
           at == {i \in 1..Len(LowerCaseLetters) : SubSeq(LowerCaseLetters, i, i) = c}
       IN (IF at = {} THEN c
           ELSE LET i == CHOOSE j \in at : TRUE IN SubSeq(UpperCaseLetters, i, i))
          \o ToUpperCase(Tail(s))

\* list.map(field => field.trim())
TrimAll(list) == [i \in DOMAIN list |-> Trim(list[i])]

\* list.map(field => `${prefix}${field}`)
Prefixed(prefix, list) == [i \in DOMAIN list |-> prefix \o list[i]]

(* --------------- entity of the query engine under test ----------------- *)
\* repository.metadata of the entity the engine is constructed for: a member
\* record with a many-to-one relation that owns a join column and a
\* one-to-many relation that owns none
EntityName == "Member"

\* metadata.columns, as property paths
AllColumns == <<"id", "age", "createdAt", "idNumber", "organizationId">>

\* a relation with no join column has an empty joinColumn
JoinColumn(propertyName, databaseName) ==
  [propertyName |-> propertyName, databaseName |-> databaseName]

EntityRelations ==
  [organization |->
     [propertyName |-> "organization", isToMany |-> FALSE,
      joinColumns |-> <<JoinColumn("organizationId", "organizationId")>>],
   orders |->
     [propertyName |-> "orders", isToMany |-> TRUE, joinColumns |-> <<>>]]

\* metadata.findRelationWithPropertyPath: the relation, or nothing
FindRelationWithPropertyPath(path) ==
  IF path \in DOMAIN EntityRelations THEN <<EntityRelations[path]>> ELSE <<>>

EntityIds == {1, 2, 3}

\* the stored row of an entity; organizationId NULL is an unset foreign key
EntityRow(id) ==
  [id |-> id,
   age |-> IF id = 2 THEN 20 ELSE 30,
   createdAt |-> 40 - 10 * id,
   idNumber |-> 70 + id,
   organizationId |-> IF id = 3 THEN NULL ELSE id]

(* ------------------------- full criteria objects ----------------------- *)
\* populate and sort are a string or an array; select and omit are strings.
\* An absent string key and an empty string are both falsy.
PopulateString(s) == [isArray |-> FALSE, s |-> s, list |-> <<>>]
PopulateArray(list) == [isArray |-> TRUE, s |-> "", list |-> list]
SortString(s) == [isArray |-> FALSE, s |-> s, list |-> <<>>]
\* an array of sort options, each the list of its <<field, direction>> keys
SortArray(list) == [isArray |-> TRUE, s |-> "", list |-> list]
NoList == [isArray |-> FALSE, s |-> "", list |-> <<>>]

TruthyList(option) == option.isArray \/ option.s # ""

EmptyCriteria ==
  [hasWhere |-> FALSE, where |-> <<>>, limit |-> Absent, skip |-> Absent,
   populate |-> NoList, select |-> "", omit |-> "", sort |-> NoList]

(* ----------------------------- query builder --------------------------- *)
\* repository.createQueryBuilder('entity'): nothing joined, no condition, no
\* bound, no order, the default projection
CreateQueryBuilder ==
  [joins |-> <<>>, wheres |-> <<>>, take |-> Absent, skip |-> Absent,
   orderBys |-> <<>>, hasSelect |-> FALSE, selects |-> <<>>]

LeftJoinAndSelect(query, property, alias) ==
  [query EXCEPT !.joins = Append(@, [property |-> property, alias |-> alias])]

\* SelectQueryBuilder.orderBy replaces the order, addOrderBy extends it
OrderBy(query, sort, order) ==
  [query EXCEPT !.orderBys = <<[sort |-> sort, order |-> order]>>]

AddOrderBy(query, sort, order) ==
  [query EXCEPT !.orderBys = Append(@, [sort |-> sort, order |-> order])]

Select(query, selection) == [query EXCEPT !.hasSelect = TRUE, !.selects = selection]

(* ------------------- WaterlineQueryService: compilation ---------------- *)
\* uuidv4(): the n-th key generated for a query; no two keys are equal
Uuidv4(n) == n

SqlOperator(modifier) ==
  CASE modifier = "in" -> "IN"
    [] modifier = "nin" -> "NOT IN"
    [] modifier \in {"contains", "startsWith", "endsWith"} -> "LIKE"
    [] OTHER -> modifier

\* mutant: the operand is written into the condition text
ConditionInlined(alias, key, modifier, paramKey, modifierValue) ==
  [column |-> alias \o "." \o key, operator |-> SqlOperator(modifier),
   parameter |-> paramKey, inlined |-> modifierValue]

\* the condition text `${alias}.${key} <op> :${paramKey}`: the column, the
\* SQL operator and the name of the parameter; `inlined` is what the text
\* carries of the operand itself
Condition(alias, key, modifier, paramKey, modifierValue) ==
  [column |-> alias \o "." \o key, operator |-> SqlOperator(modifier),
   parameter |-> paramKey, inlined |-> {}]

\* paramObj: the operand under its key, wrapped in % for the LIKE modifiers
ParamObj(paramKey, modifier, modifierValue) ==
  [name |-> paramKey, value |-> modifierValue,
   pattern |-> CASE modifier = "contains" -> "%v%"
                 [] modifier = "startsWith" -> "v%"
                 [] modifier = "endsWith" -> "%v"
                 [] OTHER -> "v"]

\* the andWhere/orWhere calls as the builder receives them: the condition
\* text and the parameter map of each
Bind(clauses) ==
  [i \in DOMAIN clauses |->
     [type |-> clauses[i].type, column |-> clauses[i].column,
      cmp |-> clauses[i].cmp, vals |-> clauses[i].vals,
      condition |-> Condition("entity", clauses[i].column, clauses[i].cmp,
                              Uuidv4(i), clauses[i].vals),
      parameters |-> ParamObj(Uuidv4(i), clauses[i].cmp, clauses[i].vals)]]

\* a step of findWithModifiers: the builder so far, and what was thrown
Ok(query) == [exception |-> "", message |-> "", query |-> query]
Thrown(exception, message, query) ==
  [exception |-> exception, message |-> message, query |-> query]

\* mutant: the message does not say which relation is unknown
InvalidAssociationUnnamed(association) ==
  "Invalid association in \"" \o EntityName \o "\""

InvalidAssociation(association) ==
  "Invalid association \"" \o association \o "\" in \"" \o EntityName \o "\""

\* criteria.populate as the list of trimmed names
PopulateOptions(populate) ==
  IF ~TruthyList(populate) THEN <<>>
  ELSE TrimAll(IF populate.isArray THEN populate.list ELSE Split(populate.s, ","))

RECURSIVE JoinPopulated(_, _)
\* populateOptions.forEach: a left join per relation, up to the first name
\* that is no relation of the entity
JoinPopulated(query, populateOptions) ==
  IF populateOptions = <<>> THEN Ok(query)
  ELSE LET association == Head(populateOptions)
           relation == FindRelationWithPropertyPath(association)
       IN IF relation = <<>>
          THEN Thrown("Error", InvalidAssociation(association), query)
          ELSE JoinPopulated(
                 LeftJoinAndSelect(query, "entity." \o relation[1].propertyName,
                                   "populate_" \o relation[1].propertyName),
                 Tail(populateOptions))

WithWhere(query, criteria) ==
  IF criteria.hasWhere
  THEN [query EXCEPT
          !.wheres = @ \o Bind(ApplyCriteria(Range(AllColumns), criteria.where, "and"))]
  ELSE query

\* if (criteria?.limit) query.take(...); if (criteria?.skip) query.skip(...)
WithPagination(query, criteria) ==
  [query EXCEPT !.take = IF Truthy(criteria.limit) THEN criteria.limit ELSE @,
                !.skip = IF Truthy(criteria.skip) THEN criteria.skip ELSE @]

\* mutant: the direction is compared as it was written
SortDirectionCaseSensitive(parts) ==
  IF Len(parts) >= 2 /\ parts[2] = "DESC" THEN "DESC" ELSE "ASC"

\* direction?.toUpperCase() === 'DESC' ? 'DESC' : 'ASC'
SortDirection(parts) ==
  IF Len(parts) >= 2 /\ ToUpperCase(parts[2]) = "DESC" THEN "DESC" ELSE "ASC"

RECURSIVE AddOrderByEach(_, _)
\* for (const field in sortOption) query.addOrderBy(...)
AddOrderByEach(query, sortOption) ==
  IF sortOption = <<>> THEN query
  ELSE AddOrderByEach(AddOrderBy(query, "entity." \o Head(sortOption)[1], Head(sortOption)[2]),
                      Tail(sortOption))

RECURSIVE AddSortOptions(_, _)
\* criteria.sort.forEach
AddSortOptions(query, list) ==
  IF list = <<>> THEN query
  ELSE AddSortOptions(AddOrderByEach(query, Head(list)), Tail(list))

WithSort(query, sort) ==
  IF ~TruthyList(sort) THEN query
  ELSE IF ~sort.isArray
  THEN LET parts == Split(sort.s, " ")
       IN OrderBy(query, "entity." \o parts[1], SortDirection(parts))
  ELSE AddSortOptions(query, sort.list)

\* the alias of each populated relation, pushed behind the selected fields
PopulateAliases(criteria, populateOptions) ==
  IF TruthyList(criteria.populate)
  THEN [i \in DOMAIN populateOptions |->
          "populate_" \o FindRelationWithPropertyPath(populateOptions[i])[1].propertyName]
  ELSE <<>>

\* if (!selectFields.some(field => field.includes('.id'))) unshift('entity.id')
WithPrimaryKey(selectFields) ==
  IF \E i \in DOMAIN selectFields : Includes(selectFields[i], ".id")
  THEN selectFields
  ELSE <<"entity.id">> \o selectFields

WithProjection(query, criteria, populateOptions) ==
  IF criteria.select # ""
  THEN Select(query,
              WithPrimaryKey(Prefixed("entity.", TrimAll(Split(criteria.select, ","))))
              \o PopulateAliases(criteria, populateOptions))
  ELSE IF criteria.omit # ""
  THEN LET omitFields == TrimAll(Split(criteria.omit, ","))
       IN Select(query,
                 Prefixed("entity.",
                          SelectSeq(AllColumns, LAMBDA column : column \notin Range(omitFields)))
                 \o PopulateAliases(criteria, populateOptions))
  ELSE query

\* findWithModifiers up to `this.lastExecutedQuery = query`
BuildQuery(criteria) ==
  LET populateOptions == PopulateOptions(criteria.populate)
      joined == JoinPopulated(CreateQueryBuilder, populateOptions)
  IN IF joined.exception # "" THEN joined
     ELSE Ok(WithProjection(
               WithSort(WithPagination(WithWhere(joined.query, criteria), criteria),
                        criteria.sort),
               criteria, populateOptions))

\* countWithModifiers up to `this.lastExecutedQuery = query`
BuildCount(criteria) == Ok(WithWhere(CreateQueryBuilder, criteria))

(* -------------------- WaterlineQueryService: execution ----------------- *)
\* `entity.<path>` without its alias
PathOf(field) == SubSeq(field, Len("entity.") + 1, Len(field))

IsEntityField(field) ==
  Len(field) > Len("entity.") /\ SubSeq(field, 1, Len("entity.")) = "entity."

\* the columns of the base projection: every column, or the selected ones
ProjectedColumns(query) ==
  IF query.hasSelect
  THEN SelectSeq(AllColumns, LAMBDA column : ("entity." \o column) \in Range(query.selects))
  ELSE AllColumns

\* an order or selection the store cannot resolve against the entity
Unresolved(query) ==
  ({query.orderBys[i].sort : i \in DOMAIN query.orderBys} \cup
   {query.selects[i] : i \in {j \in DOMAIN query.selects : IsEntityField(query.selects[j])}})
  \ {"entity." \o AllColumns[i] : i \in DOMAIN AllColumns}

RECURSIVE Precedes(_, _, _)
\* row a comes before row b under ORDER BY orderBys; rows that tie on every
\* key come in primary-key order
Precedes(a, b, orderBys) ==
  IF orderBys = <<>> THEN a.id < b.id
  ELSE LET column == PathOf(Head(orderBys).sort)
       IN IF a[column] = b[column] THEN Precedes(a, b, Tail(orderBys))
          ELSE IF Head(orderBys).order = "DESC" THEN a[column] > b[column]
          ELSE a[column] < b[column]

RECURSIVE Ordered(_, _)
Ordered(ids, orderBys) ==
  IF ids = {} THEN <<>>
  ELSE LET first == CHOOSE a \in ids :
                      \A b \in ids \ {a} : Precedes(EntityRow(a), EntityRow(b), orderBys)
       IN <<first>> \o Ordered(ids \ {first}, orderBys)

\* the hydrated entity: `key` is the row it was read from
Hydrate(id, columns) ==
  [key |-> id, fields |-> [column \in Range(columns) |-> EntityRow(id)[column]]]

\* the rows the statement returns for one entity: one per joined row of a
\* to-many relation (a left join keeps an entity with no joined row)
RawRowsOf(tbl, query, id, columns) ==
  LET joinsToMany ==
        \E i \in DOMAIN query.joins :
          \E name \in DOMAIN EntityRelations :
            /\ query.joins[i].alias = "populate_" \o name
            /\ EntityRelations[name].isToMany
      copies == IF joinsToMany /\ tbl[id] > 1 THEN tbl[id] ELSE 1
  IN [n \in 1..copies |->
        [owner |-> id,
         data |-> [name \in {"entity_" \o columns[i] : i \in DOMAIN columns} |->
                     EntityRow(id)[SubSeq(name, Len("entity_") + 1, Len(name))]]]]

RECURSIVE RawRows(_, _, _, _)
RawRows(tbl, query, ids, columns) ==
  IF ids = <<>> THEN <<>>
  ELSE RawRowsOf(tbl, query, Head(ids), columns) \o RawRows(tbl, query, Tail(ids), columns)

\* query.getRawAndEntities(): take and skip bound the entities, the raw rows
\* are those of the statement
GetRawAndEntities(tbl, query) ==
  LET matching == {id \in EntityIds : Matches(EntityRow(id), query.wheres)}
      ordered == Ordered(matching, query.orderBys)
      skipped == IF query.skip # Absent THEN Drop(ordered, ValueOf(query.skip)) ELSE ordered
      ids == IF query.take # Absent THEN Take(skipped, ValueOf(query.take)) ELSE skipped
      columns == ProjectedColumns(query)
  IN IF Unresolved(query) # {}
     THEN [exception |-> "QueryFailedError", raw |-> <<>>, entities |-> <<>>]
     ELSE [exception |-> "", raw |-> RawRows(tbl, query, ids, columns),
           entities |-> [i \in DOMAIN ids |-> Hydrate(ids[i], columns)]]

\* query.getCount()
GetCount(tbl, query) ==
  Cardinality({id \in EntityIds : Matches(EntityRow(id), query.wheres)})

RECURSIVE EnhanceEntityWithForeignKeys(_, _, _)
\* copies the raw foreign-key value of each populated relation that owns a
\* join column onto the entity; rawData is <<>> when raw[i] is undefined
EnhanceEntityWithForeignKeys(entity, rawData, relationNames) ==
  IF rawData = <<>> \/ relationNames = <<>> THEN entity
  ELSE LET relation == FindRelationWithPropertyPath(Head(relationNames))
           rest == Tail(relationNames)
       IN IF relation = <<>> \/ relation[1].joinColumns = <<>>
          THEN EnhanceEntityWithForeignKeys(entity, rawData, rest)
          ELSE LET foreignKeyColumn == relation[1].joinColumns[1]
                   name == "entity_" \o foreignKeyColumn.databaseName
                   data == rawData[1].data
               IN IF name \in DOMAIN data /\ data[name] # NULL
                  THEN EnhanceEntityWithForeignKeys(
                         [entity EXCEPT !.fields =
                            [column \in DOMAIN @ \cup {foreignKeyColumn.propertyName} |->
                               IF column = foreignKeyColumn.propertyName
                               THEN data[name] ELSE @[column]]],
                         rawData, rest)
                  ELSE EnhanceEntityWithForeignKeys(entity, rawData, rest)

\* what a call on the engine did and returned
Answer(op, criteria, exception, message, executed, query, raw, entities, count) ==
  [op |-> op, criteria |-> criteria, exception |-> exception, message |-> message,
   executed |-> executed, query |-> query, raw |-> raw, entities |-> entities,
   count |-> count]

NoAnswer ==
  Answer("none", EmptyCriteria, "", "", FALSE, CreateQueryBuilder, <<>>, <<>>, 0)

\* WaterlineQueryService.findWithModifiers(criteria)
FindEntities(tbl, criteria) ==
  LET built == BuildQuery(criteria)
      got == GetRawAndEntities(tbl, built.query)
      populateOptions == PopulateOptions(criteria.populate)
  IN IF built.exception # ""
     THEN Answer("findWithModifiers", criteria, built.exception, built.message, FALSE,
                 built.query, <<>>, <<>>, 0)
     ELSE IF got.exception # ""
     THEN Answer("findWithModifiers", criteria, got.exception, "", TRUE,
                 built.query, <<>>, <<>>, 0)
     ELSE Answer("findWithModifiers", criteria, "", "", TRUE, built.query, got.raw,
                 [i \in DOMAIN got.entities |->
                    EnhanceEntityWithForeignKeys(
                      got.entities[i],
                      IF i <= Len(got.raw) THEN <<got.raw[i]>> ELSE <<>>,
                      populateOptions)],
                 0)

\* WaterlineQueryService.countWithModifiers(criteria)
CountEntities(tbl, criteria) ==
  LET built == BuildCount(criteria)
  IN Answer("countWithModifiers", criteria, "", "", TRUE, built.query, <<>>, <<>>,
            GetCount(tbl, built.query))

(* ------------------- relation-scoped store operations ------------------ *)
IsToMany(type) == type \in {ManyToMany, OneToMany}

Call(op, id, form, arg) == [op |-> op, of |-> id, form |-> form, arg |-> arg]

\* relationBuilder.of(id).loadMany()
LoadMany(db, type, id) ==
  IF type = OneToMany
  THEN SortedSeq({c \in db.children : db.childFk[c] = id})
  ELSE SortedSeq({c \in db.children : <<id, c>> \in db.junction})

\* relationBuilder.of(id).loadOne()
LoadOne(db, id) == db.toOne[id]

\* mutant: a child that has a parent already keeps it
RelationAddKeepingOwner(db, type, id, ids) ==
  IF type = OneToMany
  THEN [db EXCEPT !.childFk =
          [c \in DOMAIN @ |-> IF c \in ids /\ @[c] = NULL THEN id ELSE @[c]]]
  ELSE [db EXCEPT !.junction = @ \cup {<<id, c>> : c \in ids}]

\* relationBuilder.of(id).add(ids): one-to-many writes the child's foreign
\* key, many-to-many inserts junction rows
RelationAdd(db, type, id, ids) ==
  IF type = OneToMany
  THEN [db EXCEPT !.childFk = [c \in DOMAIN @ |-> IF c \in ids THEN id ELSE @[c]]]
  ELSE [db EXCEPT !.junction = @ \cup {<<id, c>> : c \in ids}]

\* mutant: the named children are deleted instead of detached
RelationRemoveDeleting(db, type, id, ids) ==
  IF type = OneToMany
  THEN [db EXCEPT !.children = {c \in @ : ~(c \in ids /\ db.childFk[c] = id)},
                  !.childFk =
                    [c \in DOMAIN @ |-> IF c \in ids /\ @[c] = id THEN NULL ELSE @[c]]]
  ELSE [db EXCEPT !.children = {c \in @ : ~(c \in ids /\ <<id, c>> \in db.junction)},
                  !.junction = @ \ {<<id, c>> : c \in ids}]

\* mutant: every child of the parent is detached, named or not
RelationRemoveAll(db, type, id, ids) ==
  IF type = OneToMany
  THEN [db EXCEPT !.childFk = [c \in DOMAIN @ |-> IF @[c] = id THEN NULL ELSE @[c]]]
  ELSE [db EXCEPT !.junction = {r \in @ : r[1] # id}]

\* relationBuilder.of(id).remove(ids): one-to-many clears the foreign key of
\* the named children of this parent, many-to-many deletes junction rows
RelationRemove(db, type, id, ids) ==
  IF type = OneToMany
  THEN [db EXCEPT !.childFk =
          [c \in DOMAIN @ |-> IF c \in ids /\ @[c] = id THEN NULL ELSE @[c]]]
  ELSE [db EXCEPT !.junction = @ \ {<<id, c>> : c \in ids}]

\* relationBuilder.of(id).set(value): the whole related set of a
\* many-to-many relation, or the parent's foreign key of a to-one relation
RelationSetMany(db, id, ids) ==
  [db EXCEPT !.junction = {r \in @ : r[1] # id} \cup {<<id, c>> : c \in ids}]

RelationSetOne(db, id, value) == [db EXCEPT !.toOne[id] = value]

(* ------------------------ BaseAssociationService ----------------------- *)
ParentNotFound == "Entity with id <id> not found"
ChildNotFound == "Child record with id <fk> not found"
SomeChildrenNotFound == "Some child records not found"
AssociationNotFound == "Association '<association>' not found in <parent>"

\* calls: the relation-scoped store calls made; queries: the calls made on
\* the child query engine
Outcome(db, calls, exception, message, result, count) ==
  [db |-> db, calls |-> calls, exception |-> exception, message |-> message,
   result |-> result, count |-> count, queries |-> <<>>]

\* a call on childWaterlineQueryService
ChildQuery(op, criteria) == [op |-> op, criteria |-> criteria]

Queried(outcome, queries) == [outcome EXCEPT !.queries = queries]

Rejected(db, exception, message) == Outcome(db, <<>>, exception, message, <<>>, 0)

\* BaseService.findOne as ensureParentExists uses it
ParentExists(db, id) == id \in db.parents

\* getRelationMetadata: metadata.findRelationWithPropertyPath(association)
GetRelationMetadata(rels, association) ==
  IF association \in DOMAIN rels THEN rels[association] ELSE NoRelation

\* mutant: the child lookup is skipped
ChildExistsUnchecked(db, fk) == TRUE

\* ensureChildExists: findWithModifiers({ where: { id: fk }, limit: 1 })
ChildExistsCriteria(fk) == Criteria(TRUE, <<Val("id", fk)>>, {1}, Absent)

ChildExists(db, fk) == Len(FindWithModifiers(db, ChildExistsCriteria(fk))) > 0

\* loadRelatedEntities: the related children as a list of ids
LoadRelatedEntities(db, type, id) ==
  IF IsToMany(type) THEN LoadMany(db, type, id)
  ELSE IF LoadOne(db, id) # NULL THEN <<LoadOne(db, id)>> ELSE <<>>

LoadCall(type, id) ==
  Call(IF IsToMany(type) THEN "loadMany" ELSE "loadOne", id, "none", <<>>)

\* findOne(id, relation.propertyName): the parent with the relation populated
Hydrated(db, type, id) == LoadRelatedEntities(db, type, id)

\* mutant: the check for an existing association is lost
AlreadyAssociatedNever(existingRelations, fk) == FALSE

\* existingRelations.some(child => child.id === fk)
AlreadyAssociated(existingRelations, fk) == fk \in Range(existingRelations)

AddAssociation(db, rels, id, association, fk) ==
  LET relation == GetRelationMetadata(rels, association)
      existingRelations == LoadRelatedEntities(db, relation, id)
  IN IF ~ParentExists(db, id) THEN Rejected(db, "NotFoundException", ParentNotFound)
     ELSE IF relation = NoRelation THEN Rejected(db, "Error", AssociationNotFound)
     ELSE Queried(
     IF ~ChildExists(db, fk) THEN Rejected(db, "NotFoundException", ChildNotFound)
     ELSE IF IsToMany(relation)
     THEN IF AlreadyAssociated(existingRelations, fk)
          THEN Outcome(db, <<LoadCall(relation, id)>>, "", "", Hydrated(db, relation, id), 0)
          ELSE LET after == RelationAdd(db, relation, id, {fk})
               IN Outcome(after, <<LoadCall(relation, id), Call("add", id, "scalar", <<fk>>)>>,
                          "", "", Hydrated(after, relation, id), 0)
     ELSE IF existingRelations = <<>> \/ existingRelations[1] # fk
          THEN LET after == RelationSetOne(db, id, fk)
               IN Outcome(after, <<LoadCall(relation, id), Call("set", id, "scalar", <<fk>>)>>,
                          "", "", Hydrated(after, relation, id), 0)
          ELSE Outcome(db, <<LoadCall(relation, id)>>, "", "", Hydrated(db, relation, id), 0),
     <<ChildQuery("findWithModifiers", ChildExistsCriteria(fk))>>)


RemoveAssociation(db, rels, id, association, fk) ==
  LET relation == GetRelationMetadata(rels, association)
  IN IF ~ParentExists(db, id) THEN Rejected(db, "NotFoundException", ParentNotFound)
     ELSE IF relation = NoRelation THEN Rejected(db, "Error", AssociationNotFound)
     ELSE IF IsToMany(relation)
     THEN LET after == RelationRemove(db, relation, id, {fk})
          IN Outcome(after, <<Call("remove", id, "scalar", <<fk>>)>>,
                     "", "", Hydrated(after, relation, id), 0)
     ELSE LET after == RelationSetOne(db, id, NULL)
          IN Outcome(after, <<Call("set", id, "null", <<>>)>>,
                     "", "", Hydrated(after, relation, id), 0)

\* an element of the fks payload: a number, or something Number() turns to NaN
Num(n) == [isNaN |-> FALSE, n |-> n]
NotANumber == [isNaN |-> TRUE, n |-> NULL]

RECURSIVE Numbers(_)
\* fks.map(fk => Number(fk)).filter(fk => !Number.isNaN(fk))
Numbers(fks) ==
  IF fks = <<>> THEN <<>>
  ELSE (IF Head(fks).isNaN THEN <<>> ELSE <<Head(fks).n>>) \o Numbers(Tail(fks))

NormalizedIds(fks) == Dedup(Numbers(fks))

\* mutant: the found children are not counted against the requested ids
SomeChildrenMissingIgnored(childRecords, normalizedIds) == FALSE

\* childRecords.length !== normalizedIds.length
SomeChildrenMissing(childRecords, normalizedIds) == Len(childRecords) # Len(normalizedIds)

\* mutant: the filter keeps the ids that are requested instead of the others
IdsToRemoveInverted(existingIds, normalizedIds) ==
  Filter(existingIds, Range(normalizedIds))

\* existingIds.filter(existingId => !normalizedIds.includes(existingId))
IdsToRemove(existingIds, normalizedIds) ==
  Filter(existingIds, Range(existingIds) \ Range(normalizedIds))

\* mutant: every requested id is added again, related or not
IdsToAddUnfiltered(existingIds, normalizedIds) == normalizedIds

\* normalizedIds.filter(childId => !existingIds.includes(childId))
IdsToAdd(existingIds, normalizedIds) ==
  Filter(normalizedIds, Range(normalizedIds) \ Range(existingIds))

ReplaceAssociations(db, rels, id, association, fks) ==
  LET relation == GetRelationMetadata(rels, association)
      normalizedIds == NormalizedIds(fks)
      childCriteria == Criteria(TRUE, <<Mod("id", "in", Range(normalizedIds))>>, Absent, Absent)
      childRecords == FindWithModifiers(db, childCriteria)
  IN IF ~ParentExists(db, id) THEN Rejected(db, "NotFoundException", ParentNotFound)
     ELSE IF relation = NoRelation THEN Rejected(db, "Error", AssociationNotFound)
     ELSE Queried(
     IF Len(normalizedIds) > 0 /\ SomeChildrenMissing(childRecords, normalizedIds)
     THEN Rejected(db, "NotFoundException", SomeChildrenNotFound)
     ELSE IF relation = ManyToMany
     THEN LET after == RelationSetMany(db, id, Range(normalizedIds))
          IN Outcome(after, <<Call("set", id, "array", normalizedIds)>>,
                     "", "", Hydrated(after, relation, id), 0)
     ELSE IF relation = OneToMany
     THEN LET existingIds == LoadRelatedEntities(db, relation, id)
              idsToRemove == IdsToRemove(existingIds, normalizedIds)
              idsToAdd == IdsToAdd(existingIds, normalizedIds)
              removed == IF Len(idsToRemove) > 0
                         THEN RelationRemove(db, relation, id, Range(idsToRemove)) ELSE db
              after == IF Len(idsToAdd) > 0
                       THEN RelationAdd(removed, relation, id, Range(idsToAdd)) ELSE removed
          IN Outcome(after,
                     <<LoadCall(relation, id)>>
                     \o (IF Len(idsToRemove) > 0
                         THEN <<Call("remove", id, "array", idsToRemove)>> ELSE <<>>)
                     \o (IF Len(idsToAdd) > 0
                         THEN <<Call("add", id, "array", idsToAdd)>> ELSE <<>>),
                     "", "", Hydrated(after, relation, id), 0)
     ELSE LET value == IF Len(normalizedIds) > 0 THEN normalizedIds[1] ELSE NULL
              after == RelationSetOne(db, id, value)
          IN Outcome(after,
                     <<Call("set", id, IF value = NULL THEN "null" ELSE "scalar",
                            IF value = NULL THEN <<>> ELSE <<value>>)>>,
                     "", "", Hydrated(after, relation, id), 0),
     IF Len(normalizedIds) > 0
     THEN <<ChildQuery("findWithModifiers", childCriteria)>> ELSE <<>>)

\* mutant: an empty relation is queried like any other
NoneRelatedNever(relatedIds) == FALSE

\* relatedIds.length === 0
NoneRelated(relatedIds) == Len(relatedIds) = 0

\* { id: { in: relatedIds } }, and-ed behind the caller's where when it has one
CombinedWhere(query, relatedIds) ==
  LET associationWhere == <<Mod("id", "in", Range(relatedIds))>>
  IN IF query.hasWhere
     THEN <<Lst("and", <<query.where, associationWhere>>)>>
     ELSE associationWhere

FindAssociations(db, rels, id, association, query) ==
  LET relation == GetRelationMetadata(rels, association)
      relatedIds == Dedup(LoadRelatedEntities(db, relation, id))
      criteria == [query EXCEPT !.hasWhere = TRUE, !.where = CombinedWhere(query, relatedIds)]
  IN IF ~ParentExists(db, id) THEN Rejected(db, "NotFoundException", ParentNotFound)
     ELSE IF relation = NoRelation THEN Rejected(db, "Error", AssociationNotFound)
     ELSE IF NoneRelated(relatedIds)
     THEN Outcome(db, <<LoadCall(relation, id)>>, "", "", <<>>, 0)
     ELSE Queried(
            Outcome(db, <<LoadCall(relation, id)>>, "", "", FindWithModifiers(db, criteria), 0),
            <<ChildQuery("findWithModifiers", criteria)>>)

CountAssociations(db, rels, id, association, query) ==
  LET relation == GetRelationMetadata(rels, association)
      relatedIds == Dedup(LoadRelatedEntities(db, relation, id))
      criteria == Criteria(TRUE, CombinedWhere(query, relatedIds), Absent, Absent)
  IN IF ~ParentExists(db, id) THEN Rejected(db, "NotFoundException", ParentNotFound)
     ELSE IF relation = NoRelation THEN Rejected(db, "Error", AssociationNotFound)
     ELSE IF NoneRelated(relatedIds)
     THEN Outcome(db, <<LoadCall(relation, id)>>, "", "", <<>>, 0)
     ELSE Queried(
            Outcome(db, <<LoadCall(relation, id)>>, "", "", <<>>,
                    CountWithModifiers(db, criteria)),
            <<ChildQuery("countWithModifiers", criteria)>>)

(* ------------- BaseAssociationService: one await at a time ------------- *)
\* A call in flight: the handler runs from one await to the next, and other
\* calls run in between.  pc names the store call the handler awaits next;
\* existing is what its relation-scoped read returned; calls are the
\* relation-scoped writes it has issued.
Proc(op, id, association, fk, fks, pc, existing, calls, exception, message, result, pre) ==
  [op |-> op, id |-> id, association |-> association, fk |-> fk, fks |-> fks, pc |-> pc,
   existing |-> existing, calls |-> calls, exception |-> exception, message |-> message,
   result |-> result, pre |-> pre]

\* the handler has passed its checks and awaits its first relation-scoped call
Entered(op, id, association, fk, fks, pc, db) ==
  Proc(op, id, association, fk, fks, pc, <<>>, <<>>, "", "", <<>>, db)

\* the handler has thrown before any relation-scoped call
Refused(op, id, association, fk, fks, exception, message, db) ==
  Proc(op, id, association, fk, fks, "rejected", <<>>, <<>>, exception, message, <<>>, db)

\* addAssociation up to `await this.loadRelatedEntities(...)`
AddAssociationEnters(db, rels, id, association, fk) ==
  LET relation == GetRelationMetadata(rels, association)
  IN IF ~ParentExists(db, id)
     THEN Refused("addAssociation", id, association, fk, <<>>, "NotFoundException",
                  ParentNotFound, db)
     ELSE IF relation = NoRelation
     THEN Refused("addAssociation", id, association, fk, <<>>, "Error", AssociationNotFound, db)
     ELSE IF ~ChildExists(db, fk)
     THEN Refused("addAssociation", id, association, fk, <<>>, "NotFoundException",
                  ChildNotFound, db)
     ELSE Entered("addAssociation", id, association, fk, <<>>, "load", db)

\* removeAssociation up to `await relationBuilder.of(id).remove(fk)` or set(null)
RemoveAssociationEnters(db, rels, id, association, fk) ==
  LET relation == GetRelationMetadata(rels, association)
  IN IF ~ParentExists(db, id)
     THEN Refused("removeAssociation", id, association, fk, <<>>, "NotFoundException",
                  ParentNotFound, db)
     ELSE IF relation = NoRelation
     THEN Refused("removeAssociation", id, association, fk, <<>>, "Error",
                  AssociationNotFound, db)
     ELSE Entered("removeAssociation", id, association, fk, <<>>,
                  IF IsToMany(relation) THEN "remove" ELSE "set", db)

\* replaceAssociations up to its first relation-scoped call; fks holds the
\* normalized ids from there on
ReplaceAssociationsEnters(db, rels, id, association, fks) ==
  LET relation == GetRelationMetadata(rels, association)
      normalizedIds == NormalizedIds(fks)
      childRecords ==
        FindWithModifiers(db, Criteria(TRUE, <<Mod("id", "in", Range(normalizedIds))>>,
                                       Absent, Absent))
  IN IF ~ParentExists(db, id)
     THEN Refused("replaceAssociations", id, association, NULL, normalizedIds,
                  "NotFoundException", ParentNotFound, db)
     ELSE IF relation = NoRelation
     THEN Refused("replaceAssociations", id, association, NULL, normalizedIds, "Error",
                  AssociationNotFound, db)
     ELSE IF Len(normalizedIds) > 0 /\ SomeChildrenMissing(childRecords, normalizedIds)
     THEN Refused("replaceAssociations", id, association, NULL, normalizedIds,
                  "NotFoundException", SomeChildrenNotFound, db)
     ELSE Entered("replaceAssociations", id, association, NULL, normalizedIds,
                  IF relation = OneToMany THEN "load" ELSE "set", db)

\* the call the handler awaits after loadRelatedEntities has returned
AfterLoad(proc, relation, existing) ==
  IF proc.op = "addAssociation"
  THEN (IF IsToMany(relation)
        THEN (IF AlreadyAssociated(existing, proc.fk) THEN "findOne" ELSE "add")
        ELSE (IF existing = <<>> \/ existing[1] # proc.fk THEN "set" ELSE "findOne"))
  ELSE IF Len(IdsToRemove(existing, proc.fks)) > 0 THEN "remove"
  ELSE IF Len(IdsToAdd(existing, proc.fks)) > 0 THEN "add"
  ELSE "findOne"

\* the call the handler awaits after remove has returned
AfterRemove(proc) ==
  IF proc.op = "replaceAssociations" /\ Len(IdsToAdd(proc.existing, proc.fks)) > 0
  THEN "add" ELSE "findOne"

\* mutant: the write saves the whole related set as the handler knows it,
\* the way loading the parent, changing its collection and saving it does
WriteWholeRelation(db, relation, proc) ==
  LET id == proc.id
      known == IF proc.op = "removeAssociation"
               THEN Range(LoadRelatedEntities(db, relation, id)) ELSE Range(proc.existing)
      target == CASE proc.op = "addAssociation" ->
                       IF IsToMany(relation) THEN known \cup {proc.fk} ELSE {proc.fk}
                  [] proc.op = "removeAssociation" ->
                       IF IsToMany(relation) THEN known \ {proc.fk} ELSE {}
                  [] OTHER ->
                       IF IsToMany(relation) \/ proc.fks = <<>> THEN Range(proc.fks)
                       ELSE {proc.fks[1]}
  IN [call |-> Call(proc.pc, id, "array", SortedSeq(target)),
      db |-> CASE relation = OneToMany ->
                    [db EXCEPT !.childFk =
                       [c \in DOMAIN @ |->
                          IF c \in target THEN id ELSE IF @[c] = id THEN NULL ELSE @[c]]]
               [] relation = ManyToMany -> RelationSetMany(db, id, target)
               [] OTHER -> RelationSetOne(db, id, IF target = {} THEN NULL ELSE Min(target))]

\* the relation-scoped write the handler awaits, for the related children it
\* takes as existing: the call and the store after it
WriteWith(db, relation, proc, existing) ==
  LET id == proc.id
  IN CASE proc.pc = "remove" /\ proc.op = "removeAssociation" ->
            [call |-> Call("remove", id, "scalar", <<proc.fk>>),
             db |-> RelationRemove(db, relation, id, {proc.fk})]
       [] proc.pc = "remove" /\ proc.op = "replaceAssociations" ->
            LET idsToRemove == IdsToRemove(existing, proc.fks)
            IN [call |-> Call("remove", id, "array", idsToRemove),
                db |-> RelationRemove(db, relation, id, Range(idsToRemove))]
       [] proc.pc = "add" /\ proc.op = "addAssociation" ->
            [call |-> Call("add", id, "scalar", <<proc.fk>>),
             db |-> RelationAdd(db, relation, id, {proc.fk})]
       [] proc.pc = "add" /\ proc.op = "replaceAssociations" ->
            LET idsToAdd == IdsToAdd(existing, proc.fks)
            IN [call |-> Call("add", id, "array", idsToAdd),
                db |-> RelationAdd(db, relation, id, Range(idsToAdd))]
       [] proc.pc = "set" /\ proc.op = "addAssociation" ->
            [call |-> Call("set", id, "scalar", <<proc.fk>>),
             db |-> RelationSetOne(db, id, proc.fk)]
       [] proc.pc = "set" /\ proc.op = "removeAssociation" ->
            [call |-> Call("set", id, "null", <<>>), db |-> RelationSetOne(db, id, NULL)]
       [] proc.pc = "set" /\ relation = ManyToMany ->
            [call |-> Call("set", id, "array", proc.fks),
             db |-> RelationSetMany(db, id, Range(proc.fks))]
       [] OTHER ->
            LET value == IF Len(proc.fks) > 0 THEN proc.fks[1] ELSE NULL
            IN [call |-> Call("set", id, IF value = NULL THEN "null" ELSE "scalar",
                              IF value = NULL THEN <<>> ELSE <<value>>),
                db |-> RelationSetOne(db, id, value)]

\* mutant: the delta is computed again from the store when the write is issued
WriteFreshDelta(db, relation, proc) ==
  WriteWith(db, relation, proc, LoadRelatedEntities(db, relation, proc.id))

\* the delta of a replace is the one computed from what loadRelatedEntities
\* returned, however long ago
Write(db, relation, proc) == WriteWith(db, relation, proc, proc.existing)

\* add on a many-to-many relation inserts junction rows: a row that is
\* there already violates the primary key of the junction table
DuplicateEntry(db, relation, proc) ==
  /\ proc.pc = "add" /\ relation = ManyToMany
  /\ \E c \in Range(Write(db, relation, proc).call.arg) : <<proc.id, c>> \in db.junction

(* ------------------------------ CrudService ---------------------------- *)
\* the entity the service is constructed for: two columns next to the id
\* and two relations, each holding the id of the related record
CrudIds == {1, 2}
CrudColumns == {"name", "status"}

\* getRelationPropertyNames: repository.metadata.relations.map(rel => rel.propertyName)
GetRelationPropertyNames == {"relation1", "relation2"}

CrudProperties == CrudColumns \cup GetRelationPropertyNames

\* Object.keys of a Partial<T>
Keys(data) == DOMAIN data

Restrict(data, keys) == [k \in DOMAIN data \cap keys |-> data[k]]

\* mutant: every key is taken for a column
SeparateNothing(entityData) ==
  [columnData |-> entityData, relationData |-> Restrict(entityData, {})]

\* separateColumnsAndRelations: the keys that name a relation, and the others
SeparateColumnsAndRelations(entityData) ==
  [columnData |-> Restrict(entityData, DOMAIN entityData \ GetRelationPropertyNames),
   relationData |-> Restrict(entityData, GetRelationPropertyNames)]

\* an entity object: its id and the properties that are defined on it
Entity(id, data) == [id |-> id, data |-> data]

\* Object.assign(entity, source)
ObjectAssign(entity, source) ==
  [entity EXCEPT !.data =
     [k \in DOMAIN @ \cup DOMAIN source |-> IF k \in DOMAIN source THEN source[k] ELSE @[k]]]

\* findOne(id): findWithModifiers of the row with every relation populated
FindOne(recs, id) == Entity(id, recs[id])

\* findByIds(ids): findWithModifiers({ where: { id: { in: ids } } })
FindByIds(recs, ids) ==
  LET found == SortedSeq(DOMAIN recs \cap Range(ids))
  IN [i \in DOMAIN found |-> Entity(found[i], Restrict(recs[found[i]], CrudColumns))]

\* repository.find({ where: { id: In(ids) } }): the rows, no relation loaded
RepositoryFind(recs, ids) ==
  LET found == SortedSeq(DOMAIN recs \cap Range(ids))
  IN [i \in DOMAIN found |-> Entity(found[i], Restrict(recs[found[i]], CrudColumns))]

\* repository.update(criteria, partialEntity): UPDATE ... SET the given
\* properties on the rows the criteria selects
RepositoryUpdate(recs, ids, partialEntity) ==
  [id \in DOMAIN recs |->
     IF id \in ids
     THEN [k \in DOMAIN recs[id] |->
             IF k \in DOMAIN partialEntity THEN partialEntity[k] ELSE recs[id][k]]
     ELSE recs[id]]

RECURSIVE RepositorySave(_, _)
\* repository.save(entities): each entity is compared with its stored row
\* and every defined property that differs is written as the entity has it
RepositorySave(recs, entities) ==
  IF entities = <<>> THEN recs
  ELSE LET entity == Head(entities)
           written ==
             [id \in DOMAIN recs |->
                IF id = entity.id
                THEN [k \in DOMAIN recs[id] |->
                        IF k \in DOMAIN entity.data THEN entity.data[k] ELSE recs[id][k]]
                ELSE recs[id]]
       IN RepositorySave(written, Tail(entities))

\* a call on the repository that writes or loads rows
RepositoryCall(op, ids, data, entities) ==
  [op |-> op, ids |-> ids, data |-> data, entities |-> entities]

NoData == Restrict([k \in CrudProperties |-> NULL], {})

CrudOutcome(recs, calls, exception, message, result) ==
  [recs |-> recs, calls |-> calls, exception |-> exception, message |-> message,
   result |-> result]

\* CrudService.update(id, entityData)
Update(recs, id, entityData) ==
  IF id \notin DOMAIN recs
  THEN CrudOutcome(recs, <<>>, "NotFoundException", ParentNotFound, <<>>)
  ELSE LET existingEntity == FindOne(recs, id)
           separated == SeparateColumnsAndRelations(entityData)
           columnData == separated.columnData
           relationData == separated.relationData
           updated == IF Keys(columnData) # {}
                      THEN RepositoryUpdate(recs, {id}, columnData) ELSE recs
           assigned == ObjectAssign(existingEntity, relationData)
           saved == IF Keys(relationData) # {}
                    THEN RepositorySave(updated, <<assigned>>) ELSE updated
       IN CrudOutcome(
            saved,
            (IF Keys(columnData) # {}
             THEN <<RepositoryCall("update", {id}, columnData, <<>>)>> ELSE <<>>)
            \o (IF Keys(relationData) # {}
                THEN <<RepositoryCall("save", {id}, NoData, <<assigned>>)>> ELSE <<>>),
            "", "", <<FindOne(saved, id)>>)

\* CrudService.bulkUpdate(ids, entityData)
BulkUpdate(recs, ids, entityData) ==
  LET separated == SeparateColumnsAndRelations(entityData)
      columnData == separated.columnData
      relationData == separated.relationData
      updated == IF Keys(columnData) # {}
                 THEN RepositoryUpdate(recs, Range(ids), columnData) ELSE recs
      entitiesToUpdate == RepositoryFind(updated, ids)
      assigned == [i \in DOMAIN entitiesToUpdate |->
                     ObjectAssign(entitiesToUpdate[i], relationData)]
      saved == IF Keys(relationData) # {} THEN RepositorySave(updated, assigned) ELSE updated
  IN CrudOutcome(
       saved,
       (IF Keys(columnData) # {}
        THEN <<RepositoryCall("update", Range(ids), columnData, <<>>)>> ELSE <<>>)
       \o (IF Keys(relationData) # {}
           THEN <<RepositoryCall("find", Range(ids), NoData, <<>>),
                  RepositoryCall("save", Range(ids), NoData, assigned)>>
           ELSE <<>>),
       "", "", IF ids = <<>> THEN <<>> ELSE FindByIds(saved, ids))

(* ------------------------------ inputs --------------------------------- *)
FkInputs == {Num(n) : n \in ChildIdInputs} \cup {NotANumber}

FkLists == UNION {[1..n -> FkInputs] : n \in 0..MaxFks}

AmountIs10 == <<Val("totalAmount", 10)>>
AmountOver10 == <<Mod("totalAmount", ">", {10})>>
AmountUnder30 == <<Mod("totalAmount", "<", {30})>>
AmountIs30 == <<Val("totalAmount", 30)>>

WhereInputs ==
  { AmountIs10,
    AmountOver10,
    <<Lst("or", <<AmountIs10, AmountIs30>>)>>,
    <<Lst("and", <<AmountOver10, AmountUnder30>>)>>,
    <<Lst("and", << <<Lst("or", <<AmountIs10, AmountIs30>>)>>, AmountOver10 >>)>>,
    <<Val("id", 2), Lst("or", <<AmountIs10, AmountOver10>>)>> }

QueryInputs ==
  {Criteria(TRUE, w, l, Absent) : w \in WhereInputs, l \in {Absent, {1}}}
  \cup {Criteria(FALSE, <<>>, l, s) : l \in {Absent, {1}}, s \in {Absent, {1}}}

CountInputs == {q \in QueryInputs : q.limit = Absent /\ q.skip = Absent}

(* ----------------- inputs of the query engine under test --------------- *)
\* an entity has up to MaxOrders joined rows in its one-to-many relation
Tables == [EntityIds -> 0..MaxOrders]
NoOrders == [id \in EntityIds |-> 0]

With(criteria, key, value) == [criteria EXCEPT ![key] = value]
Where(where) == [EmptyCriteria EXCEPT !.hasWhere = TRUE, !.where = where]

AgeIs(v) == <<Val("age", v)>>
CreatedAfter(v) == <<Mod("createdAt", ">", {v})>>
IdIs(v) == <<Val("id", v)>>
NicknameIs(v) == <<Val("nickname", v)>>

Leaves == {AgeIs(20), AgeIs(30), CreatedAfter(15), IdIs(3)}

ModifierWheres ==
  {<<Mod("createdAt", m, {20})>> : m \in {"<", "<=", ">", ">=", "!="}}
  \cup {<<Mod("id", m, {1, 3})>> : m \in {"in", "nin"}}

TreeWheres ==
  {<<Lst("or", <<a, b>>)>> : a, b \in Leaves}
  \cup {<<Lst("and", <<a, b>>)>> : a, b \in Leaves}
  \cup {a \o <<Lst("or", <<b, c>>)>> : a \in {AgeIs(30)}, b, c \in Leaves \ {AgeIs(30)}}
  \cup {<<Lst("or", <<a \o b, c>>)>> : a \in {AgeIs(30)}, b \in {CreatedAfter(15)}, c \in Leaves}
  \cup {<<Lst("and", << <<Lst("or", <<a, b>>)>>, c >>)>> :
          a \in {AgeIs(20)}, b \in {IdIs(3)}, c \in Leaves}

\* where objects that name a field the entity has no column for
UnknownKeyWheres ==
  { NicknameIs(1),
    <<Mod("nickname", ">", {10})>>,
    AgeIs(20) \o NicknameIs(1),
    <<Lst("or", <<NicknameIs(1), AgeIs(20)>>)>>,
    <<Lst("and", <<AgeIs(30), NicknameIs(1)>>)>>,
    <<Lst("and", << <<Lst("or", <<NicknameIs(1)>>)>>, IdIs(3) >>)>> }

\* where objects with a modifier outside the supported ones
UnsupportedModifierWheres ==
  { <<Mod("age", "like", {30})>>,
    <<Mod("age", "between", {20})>>,
    IdIs(3) \o <<Mod("age", "like", {20})>>,
    <<Lst("or", << <<Mod("age", "regex", {20})>>, IdIs(3) >>)>>,
    <<[key |-> "age", kind |-> "object", vals |-> {},
       mods |-> <<[m |-> ">", vals |-> {25}], [m |-> "like", vals |-> {20}]>>,
       subs |-> <<>>]>> }

EngineWheres ==
  Leaves \cup ModifierWheres \cup TreeWheres \cup UnknownKeyWheres
  \cup UnsupportedModifierWheres

SortFields == {"age", "createdAt", "id"}
DirectionTexts == {"ASC", "DESC", "asc", "desc", "Desc"}

SortInputs ==
  {SortString(f) : f \in SortFields \cup {"nickname"}}
  \cup {SortString(f \o " " \o d) : f \in SortFields, d \in DirectionTexts}
  \cup {SortString(s) : s \in {"nickname DESC", "age ASC, createdAt DESC",
                               "age DESC, createdAt ASC", "createdAt ASC, age DESC"}}
  \cup {SortArray(<< <<<<f, d>>>> >>) : f \in SortFields \cup {"nickname"}, d \in {"ASC", "DESC"}}
  \cup {SortArray(<< <<<<f, d>>>>, <<<<g, e>>>> >>) :
          f \in {"age"}, g \in {"createdAt", "id", "nickname"}, d, e \in {"ASC", "DESC"}}
  \cup {SortArray(<< <<<<"createdAt", d>>>>, <<<<"age", e>>>> >>) : d, e \in {"ASC", "DESC"}}

PopulateInputs ==
  { NoList,
    PopulateString("organization"), PopulateString("orders"),
    PopulateString("organization,orders"), PopulateString("orders, organization"),
    PopulateArray(<<"organization">>), PopulateArray(<<"orders", "organization">>),
    PopulateArray(<<>>),
    PopulateString("owner"), PopulateString("orders,owner"),
    PopulateArray(<<"organization", "owner">>) }

SelectInputs ==
  {"", "age", "age,createdAt", "id,age", "age, id", "idNumber", "idNumber,age",
   "organizationId", "nickname", "age,nickname"}

OmitInputs == {"", "age", "age, createdAt", "id", "organizationId", "nickname"}

LimitInputs == {Absent, {0}, {1}, {2}, {5}}
SkipInputs == {Absent, {0}, {1}, {2}}

\* the criteria findWithModifiers is called with
FindInputs ==
  {Where(w) : w \in EngineWheres}
  \cup {With(EmptyCriteria, "sort", s) : s \in SortInputs}
  \cup {[EmptyCriteria EXCEPT !.limit = l, !.skip = k, !.sort = s] :
          l \in LimitInputs, k \in SkipInputs, s \in {NoList, SortString("createdAt")}}
  \cup {[EmptyCriteria EXCEPT !.populate = p, !.select = s] :
          p \in PopulateInputs, s \in SelectInputs}
  \cup {[EmptyCriteria EXCEPT !.populate = p, !.omit = o] :
          p \in PopulateInputs, o \in OmitInputs}
  \cup {[EmptyCriteria EXCEPT !.select = s, !.omit = o] :
          s \in {"age", "idNumber"}, o \in {"age", "createdAt"}}
  \cup {[Where(w) EXCEPT !.populate = PopulateString("owner")] : w \in Leaves}

\* the criteria countWithModifiers is called with
CountEngineInputs == {Where(w) : w \in EngineWheres} \cup {EmptyCriteria}

(* ----------------------- inputs of the CrudService --------------------- *)
\* ids a caller may name: the stored records and one id no record has
CrudIdInputs == CrudIds \cup {3}
CrudIdLists == {<<>>, <<1>>, <<2>>, <<1, 2>>, <<2, 3>>}

\* every stored column starts as 1 and no relation is set
StoredAtFirst ==
  [id \in CrudIds |-> [k \in CrudProperties |-> IF k \in CrudColumns THEN 1 ELSE NULL]]

\* the payloads: any set of properties, a new value for each
NewValues == [k \in CrudProperties |-> IF k \in CrudColumns THEN 2 ELSE 1]
Payloads == {Restrict(NewValues, K) : K \in SUBSET CrudProperties}

\* Calls on the service are made one at a time; `crud` holds the call until
\* the caller has taken its result, `pre` is the store it ran on.
CrudRecord(op, ids, entityData, pre, r) ==
  [op |-> op, ids |-> ids, entityData |-> entityData, pre |-> pre, calls |-> r.calls,
   exception |-> r.exception, message |-> r.message, result |-> r.result]

NoCrudCall ==
  [op |-> "none", ids |-> <<>>, entityData |-> NoData, pre |-> StoredAtFirst,
   calls |-> <<>>, exception |-> "", message |-> "", result |-> <<>>]

CrudIdle == crud.op = "none"

(* ------------------- inputs of the concurrent callers ------------------ *)
\* two callers, each with one association call on the same parent
Callers == {1, 2}
SharedParent == 1

\* the parent declares a relation of each type
ConcurrentRelations ==
  [orders |-> OneToMany, groups |-> ManyToMany, organization |-> ManyToOne]

\* the children related to the parent, in every relation, before the calls
RelatedAtFirst == {{}, {1}, {1, 2}}

\* fks payloads: up to MaxFks existing children, and one id no child has
ReplaceLists ==
  {[i \in DOMAIN s |-> Num(s[i])] :
     s \in {SortedSeq(S) : S \in {T \in SUBSET ChildIds : Cardinality(T) <= MaxFks}}}
  \cup {<<Num(NumChildren + 1)>>}

NoProc == Proc("none", NULL, "", NULL, <<>>, "idle", <<>>, <<>>, "", "", <<>>, <<>>)
NoProcs == [c \in Callers |-> NoProc]

(* ------------------------------ behaviour ------------------------------ *)
\* Calls are made one at a time: a caller awaits the promise of one call
\* before it makes the next.  `last` holds the call whose handler has run
\* until the caller has taken its result; `pre` is the store it ran on.
Record(op, id, association, fk, fks, query, pre, r) ==
  [op |-> op, id |-> id, association |-> association, fk |-> fk, fks |-> fks,
   query |-> query, pre |-> pre, calls |-> r.calls, exception |-> r.exception,
   message |-> r.message, result |-> r.result, count |-> r.count,
   queries |-> r.queries]

NoCall ==
  [op |-> "none", id |-> NULL, association |-> "", fk |-> NULL, fks |-> <<>>,
   query |-> NoCriteria, pre |-> <<>>, calls |-> <<>>, exception |-> "",
   message |-> "", result |-> <<>>, count |-> 0, queries |-> <<>>]

NoPrev == [valid |-> FALSE, adds |-> 0, had |-> FALSE]

Adds(calls) == Cardinality({i \in DOMAIN calls : calls[i].op = "add"})

Idle == last.op = "none"

Init ==
  /\ parents = ParentIds
  /\ children = ChildIds
  /\ childFk = [c \in ChildIds |-> NULL]
  /\ junction = {}
  /\ toOne = [p \in ParentIds |-> NULL]
  /\ relations \in {[a \in {"children"} |-> t] : t \in RelationTypes}
  /\ last = NoCall
  /\ prevAdd = NoPrev
  /\ table = NoOrders
  /\ answer = NoAnswer
  /\ records = StoredAtFirst
  /\ crud = NoCrudCall
  /\ procs = NoProcs

\* the store after a call, and the record of the call
Commit(op, id, association, fk, fks, query, r) ==
  /\ parents' = r.db.parents
  /\ children' = r.db.children
  /\ childFk' = r.db.childFk
  /\ junction' = r.db.junction
  /\ toOne' = r.db.toOne
  /\ last' = Record(op, id, association, fk, fks, query, DB, r)
  /\ UNCHANGED relations
  /\ UNCHANGED <<engineVars, crudVars, raceVars>>

AddAssociationCall ==
  /\ Idle
  /\ \E id \in ParentIdInputs, association \in AssociationNames, fk \in ChildIdInputs :
       /\ \E r \in {AddAssociation(DB, relations, id, association, fk)} :
            Commit("addAssociation", id, association, fk, <<>>, NoCriteria, r)
       /\ prevAdd' = NoPrev

\* the caller repeats the addAssociation call that has just been fulfilled
AddAssociationAgain ==
  /\ last.op = "addAssociation" /\ last.exception = "" /\ ~prevAdd.valid
  /\ \E r \in {AddAssociation(DB, relations, last.id, last.association, last.fk)} :
       Commit("addAssociation", last.id, last.association, last.fk, <<>>, NoCriteria, r)
  /\ prevAdd' =
       [valid |-> TRUE, adds |-> Adds(last.calls),
        had |-> last.fk \in Range(Hydrated(last.pre, relations[last.association], last.id))]

RemoveAssociationCall ==
  /\ Idle
  /\ \E id \in ParentIdInputs, association \in AssociationNames, fk \in ChildIdInputs :
       /\ \E r \in {RemoveAssociation(DB, relations, id, association, fk)} :
            Commit("removeAssociation", id, association, fk, <<>>, NoCriteria, r)
       /\ prevAdd' = NoPrev

ReplaceAssociationsCall ==
  /\ Idle
  /\ \E id \in ParentIdInputs, association \in AssociationNames, fks \in FkLists :
       /\ \E r \in {ReplaceAssociations(DB, relations, id, association, fks)} :
            Commit("replaceAssociations", id, association, NULL, fks, NoCriteria, r)
       /\ prevAdd' = NoPrev

FindAssociationsCall ==
  /\ Idle
  /\ \E id \in ParentIdInputs, association \in AssociationNames, query \in QueryInputs :
       /\ \E r \in {FindAssociations(DB, relations, id, association, query)} :
            Commit("findAssociations", id, association, NULL, <<>>, query, r)
       /\ prevAdd' = NoPrev

CountAssociationsCall ==
  /\ Idle
  /\ \E id \in ParentIdInputs, association \in AssociationNames, query \in CountInputs :
       /\ \E r \in {CountAssociations(DB, relations, id, association, query)} :
            Commit("countAssociations", id, association, NULL, <<>>, query, r)
       /\ prevAdd' = NoPrev

\* the promise settles and the caller takes the result
Settle ==
  /\ ~Idle
  /\ last' = NoCall
  /\ prevAdd' = NoPrev
  /\ UNCHANGED <<parents, children, childFk, junction, toOne, relations>>
  /\ UNCHANGED <<engineVars, crudVars, raceVars>>

Next ==
  \/ AddAssociationCall
  \/ AddAssociationAgain
  \/ RemoveAssociationCall
  \/ ReplaceAssociationsCall
  \/ FindAssociationsCall
  \/ CountAssociationsCall
  \/ Settle

Spec == Init /\ [][Next]_vars

(* ------------------- behaviour of the query engine --------------------- *)
\* Calls on the engine are made one at a time on a table that no call
\* changes; `answer` holds the call until the caller has taken its result.
EngineIdle == answer.op = "none"

QueryInit ==
  /\ parents = ParentIds
  /\ children = ChildIds
  /\ childFk = [c \in ChildIds |-> NULL]
  /\ junction = {}
  /\ toOne = [p \in ParentIds |-> NULL]
  /\ relations = [a \in {"children"} |-> OneToMany]
  /\ last = NoCall
  /\ prevAdd = NoPrev
  /\ table \in Tables
  /\ answer = NoAnswer
  /\ records = StoredAtFirst
  /\ crud = NoCrudCall
  /\ procs = NoProcs

FindWithModifiersCall ==
  /\ EngineIdle
  /\ \E criteria \in FindInputs : answer' = FindEntities(table, criteria)
  /\ UNCHANGED table
  /\ UNCHANGED <<associationVars, crudVars, raceVars>>

CountWithModifiersCall ==
  /\ EngineIdle
  /\ \E criteria \in CountEngineInputs : answer' = CountEntities(table, criteria)
  /\ UNCHANGED table
  /\ UNCHANGED <<associationVars, crudVars, raceVars>>

\* the promise settles and the caller takes the entities or the count
AnswerTaken ==
  /\ ~EngineIdle
  /\ answer' = NoAnswer
  /\ UNCHANGED table
  /\ UNCHANGED <<associationVars, crudVars, raceVars>>

QueryNext ==
  \/ FindWithModifiersCall
  \/ CountWithModifiersCall
  \/ AnswerTaken

QuerySpec == QueryInit /\ [][QueryNext]_vars



(* --------------------- behaviour of the CrudService -------------------- *)
CrudInit ==
  /\ parents = ParentIds
  /\ children = ChildIds
  /\ childFk = [c \in ChildIds |-> NULL]
  /\ junction = {}
  /\ toOne = [p \in ParentIds |-> NULL]
  /\ relations = [a \in {"children"} |-> OneToMany]
  /\ last = NoCall
  /\ prevAdd = NoPrev
  /\ table = NoOrders
  /\ answer = NoAnswer
  /\ records = StoredAtFirst
  /\ crud = NoCrudCall
  /\ procs = NoProcs

UpdateCall ==
  /\ CrudIdle
  /\ \E id \in CrudIdInputs, entityData \in Payloads :
       \E r \in {Update(records, id, entityData)} :
         /\ records' = r.recs
         /\ crud' = CrudRecord("update", <<id>>, entityData, records, r)
  /\ UNCHANGED <<associationVars, engineVars, raceVars>>

BulkUpdateCall ==
  /\ CrudIdle
  /\ \E ids \in CrudIdLists, entityData \in Payloads :
       \E r \in {BulkUpdate(records, ids, entityData)} :
         /\ records' = r.recs
         /\ crud' = CrudRecord("bulkUpdate", ids, entityData, records, r)
  /\ UNCHANGED <<associationVars, engineVars, raceVars>>

\* the promise settles and the caller takes the updated entities
CrudSettle ==
  /\ ~CrudIdle
  /\ crud' = NoCrudCall
  /\ UNCHANGED records
  /\ UNCHANGED <<associationVars, engineVars, raceVars>>

CrudNext ==
  \/ UpdateCall
  \/ BulkUpdateCall
  \/ CrudSettle

CrudSpec == CrudInit /\ [][CrudNext]_vars

(* ------------- behaviour of concurrent association calls --------------- *)
\* Each caller makes one call.  A handler runs without interruption between
\* two awaits; at an await any other handler may run.  The existence reads
\* at the head of a handler are taken with its first step: no call creates
\* or deletes a parent or a child, so they read the same at any moment.
ConcurrentInit ==
  /\ parents = ParentIds
  /\ children = ChildIds
  /\ \E related \in RelatedAtFirst :
       /\ childFk = [c \in ChildIds |-> IF c \in related THEN SharedParent ELSE NULL]
       /\ junction = {<<SharedParent, c>> : c \in related}
       /\ toOne = [p \in ParentIds |->
                     IF p = SharedParent /\ related # {} THEN Min(related) ELSE NULL]
  /\ relations = ConcurrentRelations
  /\ last = NoCall
  /\ prevAdd = NoPrev
  /\ table = NoOrders
  /\ answer = NoAnswer
  /\ records = StoredAtFirst
  /\ crud = NoCrudCall
  /\ procs = NoProcs

\* the store as a relation-scoped write leaves it
Stored(db) ==
  /\ parents' = db.parents
  /\ children' = db.children
  /\ childFk' = db.childFk
  /\ junction' = db.junction
  /\ toOne' = db.toOne

StoreUnchanged == UNCHANGED <<parents, children, childFk, junction, toOne>>

RestUnchanged == UNCHANGED <<relations, last, prevAdd, engineVars, crudVars>>

AddAssociationBegins ==
  /\ \E c \in Callers :
       /\ procs[c].pc = "idle"
       /\ \E association \in DOMAIN relations, fk \in ChildIdInputs :
            procs' = [procs EXCEPT
                        ![c] = AddAssociationEnters(DB, relations, SharedParent, association, fk)]
  /\ StoreUnchanged
  /\ RestUnchanged

RemoveAssociationBegins ==
  /\ \E c \in Callers :
       /\ procs[c].pc = "idle"
       /\ \E association \in DOMAIN relations, fk \in ChildIds :
            procs' = [procs EXCEPT
                        ![c] = RemoveAssociationEnters(DB, relations, SharedParent,
                                                       association, fk)]
  /\ StoreUnchanged
  /\ RestUnchanged

ReplaceAssociationsBegins ==
  /\ \E c \in Callers :
       /\ procs[c].pc = "idle"
       /\ \E association \in DOMAIN relations, fks \in ReplaceLists :
            procs' = [procs EXCEPT
                        ![c] = ReplaceAssociationsEnters(DB, relations, SharedParent,
                                                         association, fks)]
  /\ StoreUnchanged
  /\ RestUnchanged

\* loadRelatedEntities returns: loadMany or loadOne has read the store
LoadReturns ==
  /\ \E c \in Callers :
       /\ procs[c].pc = "load"
       /\ LET relation == relations[procs[c].association]
              existing == LoadRelatedEntities(DB, relation, procs[c].id)
          IN procs' = [procs EXCEPT ![c].existing = existing,
                                    ![c].pc = AfterLoad(procs[c], relation, existing)]
  /\ StoreUnchanged
  /\ RestUnchanged

\* the relation-scoped write a caller awaits (remove, add or set) is applied
\* and returns
WriteReturns ==
  /\ \E c \in Callers :
       /\ procs[c].pc \in {"remove", "add", "set"}
       /\ LET relation == relations[procs[c].association]
              write == Write(DB, relation, procs[c])
          IN /\ ~DuplicateEntry(DB, relation, procs[c])
             /\ Stored(write.db)
             /\ procs' = [procs EXCEPT
                            ![c].calls = Append(@, write.call),
                            ![c].pc = IF procs[c].pc = "remove"
                                      THEN AfterRemove(procs[c]) ELSE "findOne"]
  /\ RestUnchanged

\* the store fails the write the caller awaits: nothing is written, the
\* handler logs the error and throws it again
WriteFails ==
  /\ \E c \in Callers :
       /\ procs[c].pc \in {"remove", "add", "set"}
       /\ LET relation == relations[procs[c].association]
          IN procs' = [procs EXCEPT
                         ![c].calls = Append(@, Write(DB, relation, procs[c]).call),
                         ![c].pc = "rejected",
                         ![c].exception = "QueryFailedError"]
  /\ StoreUnchanged
  /\ RestUnchanged

\* findOne(id, relation.propertyName) returns the parent as it is now
FindOneReturns ==
  /\ \E c \in Callers :
       /\ procs[c].pc = "findOne"
       /\ procs' = [procs EXCEPT
                      ![c].result = Hydrated(DB, relations[procs[c].association], procs[c].id),
                      ![c].pc = "done"]
  /\ StoreUnchanged
  /\ RestUnchanged

ConcurrentNext ==
  \/ AddAssociationBegins
  \/ RemoveAssociationBegins
  \/ ReplaceAssociationsBegins
  \/ LoadReturns
  \/ WriteReturns
  \/ WriteFails
  \/ FindOneReturns

ConcurrentSpec == ConcurrentInit /\ [][ConcurrentNext]_vars

(* ------------------------------ properties ----------------------------- *)
Fulfilled(op) == last.op = op /\ last.exception = ""

\* the relation the last call named, and the related set of a parent
LastType == relations[last.association]
RelatedIn(db, id) == Range(Hydrated(db, LastType, id))
Before == RelatedIn(last.pre, last.id)
After == RelatedIn(DB, last.id)

\* the store calls of the last call that change a relation
Mutations == SelectSeq(last.calls, LAMBDA c : c.op \in {"add", "remove", "set"})
CallsOf(op) == SelectSeq(last.calls, LAMBDA c : c.op = op)

\* the numeric entries of the fks payload of the last call
Requested == {last.fks[i].n : i \in {j \in DOMAIN last.fks : ~last.fks[j].isNaN}}
FirstRequested == SelectSeq(last.fks, LAMBDA f : ~f.isNaN)[1].n

\* the last call named an existing parent and a relation the parent declares
WellAddressed ==
  ~Idle /\ last.id \in last.pre.parents /\ last.association \in DOMAIN relations

\* C1: addAssociation is idempotent.  To-many: when fk is already related
\* the call issues no add and leaves the store as it was, and of two
\* successive calls with the same arguments the second issues none, so both
\* together issue one add (none when fk was related from the start).
\* To-one: set(fk) is issued only when no child or another child is related.
AddIsIdempotent ==
  Fulfilled("addAssociation") =>
    IF IsToMany(LastType)
    THEN /\ last.fk \in Before => Mutations = <<>> /\ DB = last.pre
         /\ prevAdd.valid =>
              /\ Adds(last.calls) = 0
              /\ prevAdd.adds + Adds(last.calls) = (IF prevAdd.had THEN 0 ELSE 1)
    ELSE /\ CallsOf("set") # <<>> => Before # {last.fk}
         /\ Before = {last.fk} => Mutations = <<>> /\ DB = last.pre

\* a second addAssociation(id, relation, fk) right after the one that added fk
AddRepeated ==
  /\ Fulfilled("addAssociation") /\ IsToMany(LastType)
  /\ prevAdd.valid /\ prevAdd.adds = 1 /\ last.fk \in Before

\* C2: replaceAssociations on an existing parent whose de-duplicated ids are
\* not all ids of existing children rejects with 'Some child records not
\* found', issues no set, add or remove, and leaves every relation as it was.
ReplaceAllOrNothing ==
  last.op = "replaceAssociations" /\ WellAddressed
  /\ Requested # {} /\ Requested \cap last.pre.children # Requested =>
    /\ last.exception = "NotFoundException"
    /\ last.message = SomeChildrenNotFound
    /\ Mutations = <<>>
    /\ DB = last.pre
    /\ After = Before

\* a replace naming one existing and one missing child on a parent with children
ReplaceRejected ==
  /\ last.op = "replaceAssociations" /\ last.message = SomeChildrenNotFound
  /\ Requested \cap last.pre.children # {} /\ Before # {}

\* C3: a fulfilled one-to-many replace with existing ids E and requested ids
\* R issues remove once with E \ R iff that is non-empty, then add once with
\* R \ E iff that is non-empty, no set, and names no id of E \cap R.
ReplaceDeltaIsMinimal ==
  Fulfilled("replaceAssociations") /\ LastType = OneToMany =>
    LET removes == CallsOf("remove")
        adds == CallsOf("add")
    IN /\ Len(removes) = (IF Before \ Requested # {} THEN 1 ELSE 0)
       /\ Len(adds) = (IF Requested \ Before # {} THEN 1 ELSE 0)
       /\ \A i \in DOMAIN removes :
            Range(removes[i].arg) = Before \ Requested /\ removes[i].of = last.id
       /\ \A i \in DOMAIN adds :
            Range(adds[i].arg) = Requested \ Before /\ adds[i].of = last.id
       /\ Mutations = removes \o adds
       /\ \A i \in DOMAIN Mutations :
            Range(Mutations[i].arg) \cap (Before \cap Requested) = {}

\* E = {1, 2}, R = {2, 3}: one id to remove, one to keep, one to add
ReplaceWithBothDeltas ==
  /\ Fulfilled("replaceAssociations") /\ LastType = OneToMany
  /\ Before \ Requested # {} /\ Requested \ Before # {} /\ Before \cap Requested # {}

\* C4: after a fulfilled replaceAssociations the related set of the parent
\* is the set of numeric ids of fks (to-many), or the first of them, or
\* nothing when there is none (to-one).
ReplacePostcondition ==
  Fulfilled("replaceAssociations") =>
    /\ IsToMany(LastType) => After = Requested
    /\ ~IsToMany(LastType) =>
         After = (IF Requested = {} THEN {} ELSE {FirstRequested})
    /\ Range(last.result) = After

\* a replace that drops a related child and brings in another
ReplaceChangedTheSet ==
  /\ Fulfilled("replaceAssociations") /\ Requested # {}
  /\ Before \ Requested # {} /\ After = Requested

\* C5: no association call creates or deletes a child record; a child that
\* removeAssociation or replaceAssociations detached is still found by its
\* id, with a NULL foreign key in a one-to-many relation.
DetachIsNotDelete ==
  /\ children = ChildIds
  /\ Fulfilled("removeAssociation") \/ Fulfilled("replaceAssociations") =>
       \A c \in Before \ After :
         /\ FindWithModifiers(DB, Criteria(TRUE, <<Val("id", c)>>, Absent, Absent)) = <<c>>
         /\ LastType = OneToMany => childFk[c] = NULL

\* removeAssociation has detached a child of a one-to-many relation
ChildDetached ==
  /\ Fulfilled("removeAssociation") /\ LastType = OneToMany
  /\ last.fk \in Before /\ last.fk \notin After

\* C6: removeAssociation on a to-many relation issues remove(fk) and leaves
\* the previous related set minus fk; on a to-one relation it issues
\* set(null) and leaves the relation empty.
RemoveDetachesOnlyFk ==
  Fulfilled("removeAssociation") =>
    IF IsToMany(LastType)
    THEN /\ last.calls = <<Call("remove", last.id, "scalar", <<last.fk>>)>>
         /\ After = Before \ {last.fk}
    ELSE /\ last.calls = <<Call("set", last.id, "null", <<>>)>>
         /\ After = {}

\* a child removed from a parent that keeps another child
RemovedOneOfTwo ==
  /\ Fulfilled("removeAssociation") /\ IsToMany(LastType)
  /\ last.fk \in Before /\ After # {}

\* the children a fulfilled add or replace attaches to its parent
Attached ==
  IF last.op = "addAssociation" THEN {last.fk} ELSE Requested

\* C7: in a one-to-many relation a child has at most one parent; a fulfilled
\* add or replace on a parent makes the children it names members of that
\* parent only, and every other parent keeps its other children.
OneToManyIsExclusive ==
  relations["children"] = OneToMany =>
    /\ \A c \in children :
         Cardinality({p \in parents : c \in Range(LoadMany(DB, OneToMany, p))}) <= 1
    /\ Fulfilled("addAssociation") \/ Fulfilled("replaceAssociations") =>
         /\ Attached \subseteq After
         /\ \A p \in parents \ {last.id} :
              RelatedIn(DB, p) = RelatedIn(last.pre, p) \ Attached

\* a child moved from a parent that keeps another child
ChildReassigned ==
  /\ ~Idle /\ relations["children"] = OneToMany
  /\ Fulfilled("addAssociation") \/ Fulfilled("replaceAssociations")
  /\ \E p \in parents \ {last.id} :
       RelatedIn(last.pre, p) \cap Attached # {} /\ RelatedIn(DB, p) # {}

RECURSIVE Satisfies(_, _)
\* a row satisfies a where object: all its fields and `and` elements hold,
\* and some element of each `or` list holds
Satisfies(row, where) ==
  \A i \in DOMAIN where :
    LET e == where[i]
    IN CASE e.key = "and" -> \A j \in DOMAIN e.subs : Satisfies(row, e.subs[j])
         [] e.key = "or" -> \E j \in DOMAIN e.subs : Satisfies(row, e.subs[j])
         [] e.kind = "object" ->
              \A j \in DOMAIN e.mods :
                Holds(row, Clause("and", e.key, e.mods[j].m, e.mods[j].vals))
         [] OTHER -> row[e.key] \in e.vals

\* C8: findAssociations returns only children that are related to the parent
\* and satisfy criteria.where, whatever the shape of the where object.
FindReturnsOnlyRelatedMatches ==
  Fulfilled("findAssociations") =>
    \A c \in Range(last.result) :
      /\ c \in After
      /\ last.query.hasWhere => Satisfies(ChildRow(c), last.query.where)

\* C9: with the same parent, relation and where and no limit or skip,
\* countAssociations returns the number of records findAssociations returns.
CountEqualsFind ==
  /\ Fulfilled("countAssociations") =>
       last.count =
         Len(FindAssociations(DB, relations, last.id, last.association, last.query).result)
  /\ Fulfilled("findAssociations") /\ last.query.limit = Absent /\ last.query.skip = Absent =>
       Len(last.result) =
         CountAssociations(DB, relations, last.id, last.association, last.query).count

\* a count with a where that keeps some related children and drops others
CountedSome ==
  /\ Fulfilled("countAssociations") /\ last.query.hasWhere
  /\ last.count > 0 /\ last.count < Cardinality(After)

\* C10: a call naming a parent that does not exist rejects with NotFound,
\* and addAssociation on an existing parent naming a child that does not
\* exist rejects with 'Child record with id <fk> not found'; neither issues
\* a relation-scoped read or write.
ExistenceIsChecked ==
  /\ ~Idle /\ last.id \notin last.pre.parents =>
       /\ last.exception = "NotFoundException" /\ last.message = ParentNotFound
       /\ last.calls = <<>> /\ DB = last.pre
  /\ last.op = "addAssociation" /\ WellAddressed /\ last.fk \notin last.pre.children =>
       /\ last.exception = "NotFoundException" /\ last.message = ChildNotFound
       /\ last.calls = <<>> /\ DB = last.pre

\* addAssociation of a missing child to a parent that has children
MissingChildRejected ==
  /\ last.op = "addAssociation" /\ WellAddressed
  /\ last.fk \notin last.pre.children /\ Before # {}

(* --------------------- properties of the query engine ------------------ *)
FindAnswered == answer.op = "findWithModifiers"
CountAnswered == answer.op = "countWithModifiers"

\* the names the criteria of the calls are written with
FieldNames == Range(AllColumns) \cup {"nickname"}
RelationNames == DOMAIN EntityRelations \cup {"owner"}

RECURSIVE WhereKeys(_)
\* the fields a where object names, at any depth
WhereKeys(where) ==
  UNION {IF where[i].key \in {"and", "or"}
         THEN UNION {WhereKeys(where[i].subs[j]) : j \in DOMAIN where[i].subs}
         ELSE {where[i].key} : i \in DOMAIN where}

RECURSIVE WhereModifiers(_)
\* the modifiers a where object uses, at any depth
WhereModifiers(where) ==
  UNION {IF where[i].key \in {"and", "or"}
         THEN UNION {WhereModifiers(where[i].subs[j]) : j \in DOMAIN where[i].subs}
         ELSE {where[i].mods[j].m : j \in DOMAIN where[i].mods} : i \in DOMAIN where}

\* the names a comma-separated list carries
Listed(text, names) == {n \in names : n \in Range(TrimAll(Split(text, ",")))}

\* the fields a sort names, in either form
SortKeys(sort) ==
  IF sort.isArray
  THEN UNION {{sort.list[i][j][1] : j \in DOMAIN sort.list[i]} : i \in DOMAIN sort.list}
  ELSE {n \in FieldNames :
          \E i \in DOMAIN Split(sort.s, ",") :
            Split(TrimStart(Split(sort.s, ",")[i]), " ")[1] = n}

\* the relations a populate names, in either form
PopulateKeys(populate) ==
  IF populate.isArray THEN Range(populate.list) ELSE Listed(populate.s, RelationNames)

\* the <<category, field>> references of a criteria that no column answers
UnknownReferences(criteria) ==
  ({<<"where", n>> : n \in IF criteria.hasWhere THEN WhereKeys(criteria.where) ELSE {}}
   \cup {<<"sort", n>> : n \in SortKeys(criteria.sort)}
   \cup {<<"select", n>> : n \in Listed(criteria.select, FieldNames)}
   \cup {<<"omit", n>> : n \in Listed(criteria.omit, FieldNames)})
  \ ({"where", "sort", "select", "omit"} \X Range(AllColumns))

InvalidKeyMessage(category, field) ==
  "Invalid " \o category \o " key \"" \o field \o "\" for \"" \o EntityName
  \o "\". This column does not exist."

WellPopulated(criteria) == PopulateKeys(criteria.populate) \subseteq DOMAIN EntityRelations

\* C11: a find or count whose where (at any depth), sort, select or omit
\* names a field that is no column of the entity fails with a
\* BadRequestException naming the field and its category, and runs no query.
UnknownKeysAreRejected ==
  ~EngineIdle /\ WellPopulated(answer.criteria)
  /\ UnknownReferences(answer.criteria) # {} =>
    /\ answer.exception = "BadRequestException"
    /\ \E ref \in UnknownReferences(answer.criteria) :
         answer.message = InvalidKeyMessage(ref[1], ref[2])
    /\ ~answer.executed

ExpectedProjection(criteria) ==
  LET selected == Listed(criteria.select, Range(AllColumns))
      omitted == Listed(criteria.omit, Range(AllColumns))
      base == IF criteria.select # "" THEN selected \cup {"id"}
              ELSE Range(AllColumns) \ omitted
  IN {"entity." \o n : n \in base}
     \cup {"populate_" \o n : n \in PopulateKeys(criteria.populate)}

\* C13: with a select of valid columns the projection is the selected
\* columns, entity.id and a populate_<relation> alias per populated
\* relation; with omit alone it is every column but the omitted ones and
\* the aliases; with both, select decides; with neither, nothing is selected.
ProjectionIsSelectPlusPrimaryKey ==
  FindAnswered /\ WellPopulated(answer.criteria)
  /\ UnknownReferences(answer.criteria) = {} =>
    IF answer.criteria.select # "" \/ answer.criteria.omit # ""
    THEN /\ answer.query.hasSelect
         /\ Range(answer.query.selects) = ExpectedProjection(answer.criteria)
    ELSE ~answer.query.hasSelect

\* the criteria is a where of known columns and supported modifiers only
PlainWhere(criteria) ==
  /\ criteria.hasWhere
  /\ criteria = Where(criteria.where)
  /\ WhereKeys(criteria.where) \subseteq Range(AllColumns)
  /\ WhereModifiers(criteria.where) \subseteq SupportedModifiers

\* C14: a row is returned (and counted) iff it satisfies the where tree:
\* fields and `and` elements are conjunctions, an `or` list is the
\* disjunction of its elements, each element a conjunction of its own
\* fields, each and/or node its own group.
WhereTreeIsCompiledFaithfully ==
  ~EngineIdle /\ PlainWhere(answer.criteria) =>
    LET satisfying == {id \in EntityIds : Satisfies(EntityRow(id), answer.criteria.where)}
    IN /\ FindAnswered =>
            {answer.entities[i].key : i \in DOMAIN answer.entities} = satisfying
       /\ CountAnswered => answer.count = Cardinality(satisfying)

\* C15: a where that uses a modifier outside the supported ones makes the
\* call fail before the query is executed; the condition is not dropped.
UnsupportedModifierIsRejected ==
  ~EngineIdle /\ answer.criteria.hasWhere
  /\ WhereKeys(answer.criteria.where) \subseteq Range(AllColumns)
  /\ ~(WhereModifiers(answer.criteria.where) \subseteq SupportedModifiers) =>
    /\ answer.exception # ""
    /\ ~answer.executed

RECURSIVE Reoperand(_, _)
\* the where object with every operand replaced by v
Reoperand(where, v) ==
  [i \in DOMAIN where |->
     [where[i] EXCEPT
        !.vals = IF @ = {} THEN {} ELSE {v},
        !.mods = [j \in DOMAIN @ |-> [@[j] EXCEPT !.vals = {v}]],
        !.subs = [j \in DOMAIN @ |-> Reoperand(@[j], v)]]]

RECURSIVE Operands(_)
\* the operands of the leaves of a where object, in key order
Operands(where) ==
  IF where = <<>> THEN <<>>
  ELSE LET e == Head(where)
       IN (IF e.key \in {"and", "or"}
           THEN (IF e.subs = <<>> THEN <<>>
                 ELSE Operands(Head(e.subs)) \o Operands(<<[e EXCEPT !.subs = Tail(@)]>>))
           ELSE IF e.kind = "object" THEN [j \in DOMAIN e.mods |-> e.mods[j].vals]
           ELSE <<e.vals>>)
          \o Operands(Tail(where))

\* the text of the conditions of a query, without the parameter names
Texts(wheres) ==
  [i \in DOMAIN wheres |->
     [type |-> wheres[i].type, column |-> wheres[i].condition.column,
      operator |-> wheres[i].condition.operator, inlined |-> wheres[i].condition.inlined]]

DescSpellings == {"DESC", "desc", "Desc"}

OrderClause(field, order) == [sort |-> "entity." \o field, order |-> order]

\* the rows of the entities returned, in the order returned
ReturnedRows == [i \in DOMAIN answer.entities |-> EntityRow(answer.entities[i].key)]

\* rows a then b respect an order clause: 1 in order, 0 tied, -1 out of order
Compare(a, b, clause) ==
  LET column == PathOf(clause.sort)
  IN IF a[column] = b[column] THEN 0
     ELSE IF (clause.order = "DESC") = (a[column] > b[column]) THEN 1 ELSE -1

\* C17: a sort string `field` or `field DIRECTION` gives one order clause
\* on that field, DESC iff DIRECTION is DESC in any case and ASC otherwise;
\* a sort list gives one clause per entry, in list order, and the rows come
\* back ordered by the first clause, ties by the second.
SortCompilesToOrderClauses ==
  FindAnswered /\ WellPopulated(answer.criteria) =>
    LET sort == answer.criteria.sort
        orderBys == answer.query.orderBys
    IN /\ \A f \in FieldNames :
            /\ ~sort.isArray /\ sort.s = f => orderBys = <<OrderClause(f, "ASC")>>
            /\ \A d \in DirectionTexts :
                 ~sort.isArray /\ sort.s = f \o " " \o d =>
                   orderBys = <<OrderClause(f, IF d \in DescSpellings THEN "DESC" ELSE "ASC")>>
       /\ sort.isArray /\ (\A i \in DOMAIN sort.list : Len(sort.list[i]) = 1) =>
            orderBys = [i \in DOMAIN sort.list |->
                          OrderClause(sort.list[i][1][1], sort.list[i][1][2])]
       /\ ~TruthyList(sort) => orderBys = <<>>
       /\ answer.exception = "" /\ orderBys # <<>> =>
            \A i, j \in DOMAIN ReturnedRows :
              i < j =>
                LET first == Compare(ReturnedRows[i], ReturnedRows[j], orderBys[1])
                IN /\ first >= 0
                   /\ first = 0 /\ Len(orderBys) > 1 =>
                        Compare(ReturnedRows[i], ReturnedRows[j], orderBys[2]) >= 0

\* a two-entry sort list whose second entry decides between tied rows
SortedByTwoKeys ==
  /\ FindAnswered /\ answer.criteria.sort.isArray /\ Len(answer.query.orderBys) = 2
  /\ answer.query.orderBys[2].order = "DESC"
  /\ \E i, j \in DOMAIN ReturnedRows :
       /\ i < j
       /\ Compare(ReturnedRows[i], ReturnedRows[j], answer.query.orderBys[1]) = 0
       /\ ReturnedRows[i].id > ReturnedRows[j].id

\* C18: a sort string of comma-separated entries orders by every entry, in
\* the order written and with each entry's direction.
CommaSeparatedSortOrdersByEveryKey ==
  FindAnswered =>
    \A f, g \in SortFields : \A d, e \in {"ASC", "DESC"} :
      answer.criteria.sort = SortString(f \o " " \o d \o ", " \o g \o " " \o e) =>
        answer.query.orderBys = <<OrderClause(f, d), OrderClause(g, e)>>

\* C19: take(limit) is applied whenever limit is given, 0 included, and
\* skip(skip) whenever skip is given, each on its own; a given limit n
\* bounds the result to n records and no bound applies without a limit.
PaginationAppliesProvidedBounds ==
  FindAnswered /\ WellPopulated(answer.criteria) =>
    /\ answer.query.take = answer.criteria.limit
    /\ answer.query.skip = answer.criteria.skip
    /\ answer.criteria.limit # Absent =>
         Len(answer.entities) <= ValueOf(answer.criteria.limit)

\* C20: every entity returned has, for each populated relation that owns a
\* join column, the foreign-key value its own raw row carries, when that
\* value is not null.
ForeignKeyIsReconciled ==
  FindAnswered /\ answer.exception = "" =>
    \A i \in DOMAIN answer.entities :
      \A name \in PopulateKeys(answer.criteria.populate) :
        \A k \in DOMAIN EntityRelations[name].joinColumns :
          LET foreignKeyColumn == EntityRelations[name].joinColumns[k]
              column == "entity_" \o foreignKeyColumn.databaseName
          IN \A n \in DOMAIN answer.raw :
               /\ answer.raw[n].owner = answer.entities[i].key
               /\ column \in DOMAIN answer.raw[n].data
               /\ answer.raw[n].data[column] # NULL
               => /\ foreignKeyColumn.propertyName \in DOMAIN answer.entities[i].fields
                  /\ answer.entities[i].fields[foreignKeyColumn.propertyName]
                       = answer.raw[n].data[column]

(* --------------------- properties of the CrudService ------------------- *)
CrudFulfilled(op) == crud.op = op /\ crud.exception = ""

\* the keys of the payload of the last call that name a relation, and the others
RelationKeys == DOMAIN crud.entityData \cap {"relation1", "relation2"}
ColumnKeys == DOMAIN crud.entityData \ RelationKeys

RepositoryCallsOf(op) == SelectSeq(crud.calls, LAMBDA c : c.op = op)

\* C21: in a fulfilled update or bulkUpdate the keys of the payload that
\* name a relation and the other keys part it in two; repository.update is
\* called iff there are other keys, once, on the ids named and with exactly
\* those keys and values; repository.save is called iff there are relation
\* keys, once, with entities that carry the relation values; the update is
\* issued before the save.
ColumnsAndRelationsAreSplit ==
  CrudFulfilled("update") \/ CrudFulfilled("bulkUpdate") =>
    LET updates == RepositoryCallsOf("update")
        saves == RepositoryCallsOf("save")
    IN /\ Len(updates) = (IF ColumnKeys # {} THEN 1 ELSE 0)
       /\ Len(saves) = (IF RelationKeys # {} THEN 1 ELSE 0)
       /\ \A i \in DOMAIN updates :
            /\ updates[i].data = Restrict(crud.entityData, ColumnKeys)
            /\ DOMAIN updates[i].data \cap RelationKeys = {}
            /\ updates[i].ids = Range(crud.ids)
       /\ \A i \in DOMAIN saves :
            /\ {saves[i].entities[j].id : j \in DOMAIN saves[i].entities}
                 = Range(crud.ids) \cap DOMAIN crud.pre
            /\ \A j \in DOMAIN saves[i].entities :
                 Restrict(saves[i].entities[j].data, RelationKeys)
                   = Restrict(crud.entityData, RelationKeys)
       /\ SelectSeq(crud.calls, LAMBDA c : c.op \in {"update", "save"}) = updates \o saves

\* an update whose payload names a column and a relation has issued both calls
MixedPayloadSplit ==
  /\ CrudFulfilled("update") /\ ColumnKeys # {} /\ RelationKeys # {}
  /\ Len(crud.calls) = 2

\* C27: after a fulfilled update whose payload names columns and relations
\* the stored columns of the record are the payload's column values.
MixedUpdateKeepsColumns ==
  CrudFulfilled("update") /\ ColumnKeys # {} /\ RelationKeys # {} =>
    \A k \in ColumnKeys : records[crud.ids[1]][k] = crud.entityData[k]

(* ------------- further properties of the association service ----------- *)
\* C23: the relation name is resolved when the service is constructed, so a
\* service that has been constructed never rejects a call because the
\* parent declares no relation of the name the call is made with.
RelationIsResolvedAtConstruction ==
  ~Idle => ~(last.exception = "Error" /\ last.message = AssociationNotFound)

\* C25: findAssociations and countAssociations on an existing parent whose
\* relation-scoped read yields no child return the empty list and 0 without
\* a call on the child query engine, whatever the criteria.
EmptyRelationShortCircuits ==
  last.op \in {"findAssociations", "countAssociations"} /\ WellAddressed /\ Before = {} =>
    /\ last.exception = ""
    /\ last.result = <<>> /\ last.count = 0
    /\ last.queries = <<>>
    /\ last.calls = <<LoadCall(LastType, last.id)>>

\* a find with a where and a limit on a parent that has no child, while the
\* other parent has some
EmptyRelationQueried ==
  /\ last.op = "findAssociations" /\ WellAddressed /\ Before = {}
  /\ last.query.hasWhere /\ last.query.limit # Absent
  /\ \E p \in parents \ {last.id} : RelatedIn(DB, p) # {}

\* C29: removeAssociation on a to-one relation clears the relation when fk
\* is the child currently related and leaves the relation, and the store,
\* as they were when fk names another child.
ToOneRemoveDetachesOnlyNamedChild ==
  Fulfilled("removeAssociation") /\ ~IsToMany(LastType) =>
    /\ Before = {last.fk} => After = {}
    /\ Before # {} /\ Before # {last.fk} => After = Before /\ DB = last.pre

(* ------------------ further properties of the query engine ------------- *)
\* C28: the raw row an entity is paired with, raw[i] for entities[i], is a
\* row of that same entity, also when a populated to-many relation gives an
\* entity several raw rows; no entity ends with a foreign key that the
\* stored row of another entity carries and its own does not.
RawRowsAlignWithEntities ==
  FindAnswered /\ answer.exception = "" /\ TruthyList(answer.criteria.populate) =>
    \A i \in DOMAIN answer.entities :
      /\ i <= Len(answer.raw) => answer.raw[i].owner = answer.entities[i].key
      /\ "organizationId" \in DOMAIN answer.entities[i].fields =>
           answer.entities[i].fields["organizationId"]
             = EntityRow(answer.entities[i].key)["organizationId"]

(* --------------- properties of concurrent association calls ------------ *)
TypeOf(c) == relations[procs[c].association]
Returned(c) == procs[c].pc = "done"
RelatedNow(c) == Range(Hydrated(DB, TypeOf(c), procs[c].id))
RelatedThen(c) == Range(Hydrated(procs[c].pre, TypeOf(c), procs[c].id))
RequestedBy(c) == Range(procs[c].fks)
WritesOf(c, op) == SelectSeq(procs[c].calls, LAMBDA call : call.op = op)

\* what the call of caller c asked for is so in the store
EffectPresent(c) ==
  CASE procs[c].op = "addAssociation" ->
         IF IsToMany(TypeOf(c)) THEN procs[c].fk \in RelatedNow(c)
         ELSE RelatedNow(c) = {procs[c].fk}
    [] procs[c].op = "removeAssociation" ->
         IF IsToMany(TypeOf(c)) THEN procs[c].fk \notin RelatedNow(c)
         ELSE RelatedNow(c) = {}
    [] OTHER ->
         IF IsToMany(TypeOf(c)) THEN RelatedNow(c) = RequestedBy(c)
         ELSE RelatedNow(c) = (IF procs[c].fks = <<>> THEN {} ELSE {procs[c].fks[1]})

\* two calls on different relations, or two adds of different children to
\* one to-many relation
Independent(c, d) ==
  \/ procs[c].association # procs[d].association
  \/ /\ procs[c].op = "addAssociation" /\ procs[d].op = "addAssociation"
     /\ procs[c].association = procs[d].association /\ IsToMany(TypeOf(c))
     /\ procs[c].fk # procs[d].fk

\* the relations no call in flight or returned is made on
Untargeted ==
  DOMAIN relations \ {procs[c].association : c \in {d \in Callers : procs[d].op # "none"}}

\* C22: when two such calls on the same parent have both returned, however
\* their steps interleaved, what each asked for is so in the store; and a
\* relation that no call names is as it was when any of the calls began.
NoLostUpdateBetweenAssociations ==
  /\ \A c, d \in Callers :
       c # d /\ Returned(c) /\ Returned(d) /\ Independent(c, d) =>
         EffectPresent(c) /\ EffectPresent(d)
  /\ \A c \in Callers : \A name \in Untargeted :
       procs[c].op # "none" =>
         Hydrated(DB, relations[name], procs[c].id)
           = Hydrated(procs[c].pre, relations[name], procs[c].id)

\* two adds of different children to the one-to-many relation, each read
\* before the other wrote, have both returned
ConcurrentAddsBothKept ==
  /\ \A c \in Callers :
       /\ Returned(c) /\ procs[c].op = "addAssociation" /\ TypeOf(c) = OneToMany
       /\ Len(WritesOf(c, "add")) = 1
  /\ procs[1].fk # procs[2].fk
  /\ procs[1].existing = procs[2].existing
  /\ {procs[1].fk, procs[2].fk} \subseteq RelatedNow(1)

\* C24: a one-to-many replace writes the delta of its own snapshot: it
\* removes the snapshot's ids that are not requested and adds the requested
\* ids the snapshot lacks, each write issued iff that delta is non-empty,
\* whatever the store holds when the write is issued.
ReplaceDeltaComesFromSnapshot ==
  \A c \in Callers :
    procs[c].op = "replaceAssociations" /\ TypeOf(c) = OneToMany =>
      LET snapshot == Range(procs[c].existing)
          removes == WritesOf(c, "remove")
          adds == WritesOf(c, "add")
      IN /\ \A i \in DOMAIN removes : Range(removes[i].arg) = snapshot \ RequestedBy(c)
         /\ \A i \in DOMAIN adds : Range(adds[i].arg) = RequestedBy(c) \ snapshot
         /\ Returned(c) =>
              /\ Len(removes) = (IF snapshot \ RequestedBy(c) # {} THEN 1 ELSE 0)
              /\ Len(adds) = (IF RequestedBy(c) \ snapshot # {} THEN 1 ELSE 0)

\* two one-to-many replaces with different requested sets have returned and
\* the related set is neither of the two
ReplaceRaceLeavesNeitherSet ==
  /\ \A c \in Callers :
       Returned(c) /\ procs[c].op = "replaceAssociations" /\ TypeOf(c) = OneToMany
  /\ RequestedBy(1) # RequestedBy(2)
  /\ RelatedNow(1) \notin {RequestedBy(1), RequestedBy(2)}
  /\ RelatedNow(1) = RequestedBy(1) \cup RequestedBy(2)

\* C26: of the addAssociation calls with the same parent, the same to-many
\* relation and the same fk, at most one issues an add, however their
\* steps interleave.
AddIsIssuedOnceUnderConcurrency ==
  \A c, d \in Callers :
    /\ c # d
    /\ procs[c].op = "addAssociation" /\ procs[d].op = "addAssociation"
    /\ procs[c].id = procs[d].id /\ procs[c].association = procs[d].association
    /\ procs[c].fk = procs[d].fk /\ IsToMany(TypeOf(c))
    => Len(WritesOf(c, "add")) + Len(WritesOf(d, "add")) <= 1

\* C30: when a one-to-many replace rejects while no other call is made, the
\* related set of the parent is the set before the call; the error is the
\* one the store or the check threw, and no write is issued twice.
ReplaceFailureIsAtomic ==
  \A c \in Callers :
    /\ procs[c].op = "replaceAssociations" /\ TypeOf(c) = OneToMany
    /\ procs[c].pc = "rejected"
    /\ \A d \in Callers \ {c} : procs[d].op = "none"
    => /\ RelatedNow(c) = RelatedThen(c)
       /\ procs[c].exception \in {"NotFoundException", "QueryFailedError"}
       /\ Len(WritesOf(c, "remove")) <= 1 /\ Len(WritesOf(c, "add")) <= 1

====
